---------------------------- MODULE Spec2Model ----------------------------
(***************************************************************************)
(* A model of lantz-core's dependency resolver (helpers.solve_dependencies), *)
(* of its device group and lifecycle orchestrator (flock.Flock,             *)
(* flock.initialize_many, flock.finalize_many) and of the middleware stack  *)
(* around attributes and operations (feat.Feat, action.Action).             *)
(*                                                                          *)
(* Python dictionaries are functions whose DOMAIN is the set of keys, sets  *)
(* are sets, lists are sequences (level 0 of the code is r[1] here).        *)
(***************************************************************************)
EXTENDS Integers, Sequences, FiniteSets, TLC

(***************************************************************************)
(* Bounds of the resolver's inputs.                                        *)
(***************************************************************************)
\* The names a dependency map is drawn from.
Names == {"A", "B", "C", "D"}

\* The names a member set is drawn from: a member is a key of the map, a
\* name of its dependency sets only, or neither, whichever names it has.
MemberNames == {"A", "B", "D"}

\* The largest dependency set of one key in an enumerated input map.
MaxDeps == 2

\* The number of iterations of the resolver's while loop the model follows
\* (an acyclic input over Names needs at most Cardinality(Names) of them).
MaxLevels == 4

(***************************************************************************)
(* Bounds of the device group.                                             *)
(***************************************************************************)
\* The largest number of drivers a flock of the model holds.
MaxDrivers == 3

\* Valid driver names, in the order new drivers are named: driver names are
\* opaque to the code but for the tests below, so the i-th driver added is
\* always named Pool[i].
Pool == <<"a", "b", "c", "d", "e">>

\* The names a dependency of Flock.add is drawn from: the names the flock can
\* hold and one more, which is never a member.
DepPool == {Pool[i] : i \in 1..(MaxDrivers + 1)}

\* The names a flock of the model can hold.
DriverPool == {Pool[i] : i \in 1..MaxDrivers}

\* Concurrent calls are followed on flocks of these drivers only: every
\* driver has a worker of its own, and the interleavings of four workers are
\* out of reach.
ConcurrentPool == {"a", "b", "c"}

VARIABLES
    dependencies,   \* solve_dependencies: the argument `dependencies`
    all_members,    \* solve_dependencies: the argument `all_members`
    d,              \* solve_dependencies: the local d (remaining graph)
    r,              \* solve_dependencies: the local r (levels emitted so far)
    pc,             \* where the calling thread is
    drivers,        \* Flock._drivers: the names, in insertion order
    fdeps,          \* Flock._dependencies: name -> set of names
    lastAdd,        \* the last Flock.add call: its arguments and its outcome
    call,           \* the arguments of the running initialize/finalize call
    groups,         \* initialize_many: the levels to go through, in order
    gi,             \* the index in groups of the level being processed
    todo,           \* the drivers of the level the for loop has yet to take
    cur,            \* the loop variable `driver` ("" between iterations)
    before,         \* per driver: calls of on_initializing/on_finalizing
    invoked,        \* per driver: calls of driver.initialize/finalize
    fin,            \* per driver: "none", or how its call ended ("ok", "err")
    after,          \* per driver: calls of on_initialized/on_finalized
    excCalls,       \* per driver: the errors on_exception was called with
    atexit,         \* per driver: atexit.register(driver.finalize) calls
    fut,            \* per driver: the state of the future of its async call
    cbs,            \* per driver: Future._done_callbacks not yet invoked
    result,         \* NoResult, Returned, or Err(x): the error the call raised
    feat,           \* the attribute: read_once, _simulator, fget, fset
    device,         \* per instance: the raw value the instrument holds
    cache,          \* per instance: the cache slot of the attribute
    lock,           \* per instance: the thread that holds instance.lock
    th,             \* per thread: its running get/set/call
    done,           \* the get/set/call that ended last
    modifiers,      \* the modifiers a pipeline is built from
    procs,          \* the pipelines built from them
    applied,        \* the last application of a pipeline to a value
    keys,           \* the keyed attribute: its restriction of the keys
    kdev,           \* per internal key: the raw value the instrument holds
    kcache,         \* per key of the caller: the cache slot
    klast,          \* the last get or set of the keyed attribute
    dconf,          \* the keyed attribute: its modifier store; the classes
    subs,           \* per key: the sub-attribute; per class: its registries
    slast           \* the last access to a modifier store or class step

solveVars == <<dependencies, all_members, d, r>>
flockVars == <<drivers, fdeps, lastAdd>>
loopVars  == <<call, groups, gi, todo, cur>>
devVars   == <<before, invoked, fin, after, excCalls, atexit, fut, cbs>>
featVars  == <<feat, device, cache, lock, th, done>>
pipeVars  == <<modifiers, procs, applied>>
dictVars  == <<keys, kdev, kcache, klast>>
storeVars == <<dconf, subs, slast>>
vars == <<solveVars, pc, flockVars, loopVars, devVars, result, featVars,
          pipeVars, dictVars, storeVars>>

EmptyMap == [k \in {} |-> {}]

(***************************************************************************)
(* helpers.solve_dependencies                                               *)
(***************************************************************************)
\* Mutant: all_members is ignored, disconnected members are dropped.
InitialD_NoMembers(deps, members) == deps

\* Lines 113-116: d = {key: set(value)}, then every member that is no key
\* yet becomes a key with an empty set (only when all_members is truthy).
InitialD(deps, members) ==
    IF members # {}
    THEN [k \in (DOMAIN deps) \cup members |->
             IF k \in DOMAIN deps THEN deps[k] ELSE {}]
    ELSE deps

\* Mutant: a key is also emitted as soon as all its dependencies are names
\* emitted in this very round.
ReadyNames_Eager(dd) ==
    LET ext == (UNION {dd[k] : k \in DOMAIN dd}) \ (DOMAIN dd)
        now == ext \cup {k \in DOMAIN dd : dd[k] = {}}
    IN  now \cup {k \in DOMAIN dd : dd[k] \subseteq now}

\* Lines 121-123: t = the values that are no keys, plus the keys whose
\* dependency set is empty.
ReadyNames(dd) ==
    ((UNION {dd[k] : k \in DOMAIN dd}) \ (DOMAIN dd))
        \cup {k \in DOMAIN dd : dd[k] = {}}

\* Mutant: the filter looks at the dependency set after the subtraction, so a
\* key whose last dependency was just emitted is dropped with it.
Remaining_FilterAfter(dd, t) ==
    [k \in {k \in DOMAIN dd : dd[k] \ t # {}} |-> dd[k] \ t]

\* Line 127: d = {k: v - t for k, v in d.items() if v}.
Remaining(dd, t) ==
    [k \in {k \in DOMAIN dd : dd[k] # {}} |-> dd[k] \ t]

\* Lines 113-117: entry of solve_dependencies.
SolveEnter ==
    /\ pc = "enter"
    /\ d' = InitialD(dependencies, all_members)
    /\ r' = <<>>
    /\ pc' = "solve"
    /\ UNCHANGED <<dependencies, all_members>>
    /\ UNCHANGED <<dictVars, storeVars, pipeVars, featVars,
                   flockVars, loopVars, devVars, result>>

\* Lines 119-127: one iteration of `while d`.
SolveStep ==
    /\ pc = "solve"
    /\ DOMAIN d # {}
    /\ Len(r) < MaxLevels
    /\ LET t == ReadyNames(d)
       IN  /\ r' = Append(r, t)
           /\ d' = Remaining(d, t)
    /\ UNCHANGED <<dependencies, all_members, pc>>
    /\ UNCHANGED <<dictVars, storeVars, pipeVars, featVars,
                   flockVars, loopVars, devVars, result>>

\* Line 129: `while d` ends, r is returned.
SolveReturn ==
    /\ pc = "solve"
    /\ DOMAIN d = {}
    /\ pc' = "done"
    /\ UNCHANGED <<dependencies, all_members, d, r>>
    /\ UNCHANGED <<dictVars, storeVars, pipeVars, featVars,
                   flockVars, loopVars, devVars, result>>

(***************************************************************************)
(* flock.Flock                                                              *)
(***************************************************************************)
NoAdd == [name |-> "", deps |-> {}, outcome |-> "none"]

NoCall ==
    [op |-> "none", concurrent |-> FALSE, on_exception |-> FALSE,
     on_before |-> FALSE, on_after |-> FALSE, register_finalizer |-> FALSE]

\* The outcome of a call: none yet, a normal return, or (Err) an error
\* raised to the caller.
NoResult == <<"none", "">>

Returned == <<"returned", "">>

Zeros == [x \in DriverPool |-> 0]

\* The state of the orchestrator when no call is running.
NoRun ==
    /\ call = NoCall
    /\ groups = <<>>
    /\ gi = 0
    /\ todo = {}
    /\ cur = ""
    /\ before = Zeros
    /\ invoked = Zeros
    /\ fin = [x \in DriverPool |-> "none"]
    /\ after = Zeros
    /\ excCalls = [x \in DriverPool |-> <<>>]
    /\ atexit = Zeros
    /\ fut = [x \in DriverPool |-> "none"]
    /\ cbs = [x \in DriverPool |-> <<>>]
    /\ result = NoResult

\* Flock.__init__ (lines 32-36), and no call running.
NoFlock ==
    /\ drivers = <<>>
    /\ fdeps = EmptyMap
    /\ lastAdd = NoAdd
    /\ NoRun

\* The keys of Flock._drivers.
Members == {drivers[i] : i \in 1..Len(drivers)}

\* str.isidentifier() on the names of the model: "1x" is no identifier.
IsIdentifier(name) == name \notin {"1x"}

\* dir(Flock): the attributes of the class.
DirFlock ==
    {"add", "dependencies", "items", "keys", "values", "initialize",
     "finalize", "parse", "from_yaml", "to_yaml", "record_state", "recall",
     "restore_state"}

\* Mutant: the dependencies are not validated.
AddCheck_NoDepCheck(drv, name, deps) ==
    IF ~IsIdentifier(name) THEN "ValueError"
    ELSE IF name \in DirFlock THEN "ValueError"
    ELSE IF name \in drv THEN "ValueError"
    ELSE "ok"

\* Flock.add, lines 49-64: the four checks, in the order of the code.
AddCheck(drv, name, deps) ==
    IF \E dep \in deps : dep \notin drv THEN "ValueError"
    ELSE IF ~IsIdentifier(name) THEN "ValueError"
    ELSE IF name \in DirFlock THEN "ValueError"
    ELSE IF name \in drv THEN "ValueError"
    ELSE "ok"

\* Flock.add, lines 67-68: self._dependencies is a defaultdict(set), a key
\* appears with the first dependency added to it.
DepsAfterAdd(fd, name, deps) ==
    IF deps = {} THEN fd
    ELSE [k \in (DOMAIN fd) \cup {name} |->
             IF k = name
             THEN (IF k \in DOMAIN fd THEN fd[k] ELSE {}) \cup deps
             ELSE fd[k]]

\* The driver names an add is tried with: a member, the next unused valid
\* name, a name that is no identifier, the name of a Flock attribute.
AddNames == Members \cup {Pool[Len(drivers) + 1]} \cup {"1x", "add"}

\* Flock.add(driver, *dependencies), lines 38-68.
Add(name, deps) ==
    /\ pc = "idle"
    /\ LET outcome == AddCheck(Members, name, deps)
       IN  /\ outcome = "ok" => Len(drivers) < MaxDrivers
           /\ lastAdd' = [name |-> name, deps |-> deps, outcome |-> outcome]
           /\ IF outcome = "ok"
              THEN /\ drivers' = Append(drivers, name)
                   /\ fdeps' = DepsAfterAdd(fdeps, name, deps)
              ELSE UNCHANGED <<drivers, fdeps>>
    /\ UNCHANGED <<dictVars, storeVars, pipeVars, featVars,
                   solveVars, pc, loopVars, devVars, result>>

(***************************************************************************)
(* flock.initialize_many and flock.finalize_many                            *)
(*                                                                          *)
(* The calling thread goes through pc; in concurrent mode every driver has  *)
(* a worker of its own (driver.initialize_async submits the call to the     *)
(* driver's executor and returns a concurrent.futures.Future).  A worker    *)
(* runs the call, sets the future finished, which wakes futures.wait, and   *)
(* only then invokes the callbacks added so far; a callback added to a      *)
(* finished future runs at once in the adding thread.  Hooks do not raise.  *)
(***************************************************************************)
\* The exception driver x's initialize/finalize raises when it fails.
Err(x) == <<"error", x>>

Bump(f, x) == [f EXCEPT ![x] = @ + 1]

RECURSIVE Reverse(_)
Reverse(s) == IF s = <<>> THEN <<>> ELSE Append(Reverse(Tail(s)), Head(s))

\* Mutant: finalize goes through the levels in the order of initialize.
LevelOrder_Same(op, levels) == levels

\* Lines 267 and 355: `for subset in drivers` / `in reversed(drivers)`.
LevelOrder(op, levels) == IF op = "finalize" THEN Reverse(levels) ELSE levels

\* Mutant: the error is re-raised although a hook was supplied.
Raises_Always(on_exception) == TRUE

\* Mutant: the error is never re-raised.
Raises_Never(on_exception) == FALSE

\* Lines 283, 309, 364, 388: `if not on_exception: raise ex`.
Raises(on_exception) == ~on_exception

\* Mutant: the wait ends with the first future that finishes.
AllDone_First(futs, S) == S = {} \/ \E x \in S : futs[x] = "finished"

\* Lines 301 and 380: futures.wait(futs) returns when every future is done.
AllDone(futs, S) == \A x \in S : futs[x] = "finished"

\* The first driver of S in the insertion order of Flock._drivers.
FirstOf(S) ==
    drivers[CHOOSE i \in 1..Len(drivers) :
                /\ drivers[i] \in S
                /\ \A j \in 1..(i - 1) : drivers[j] \notin S]

\* What `for driver in drivers` can take next: without dependencies the
\* drivers come in insertion order (self.values()); a level is built from a
\* set (line 266), whose iteration order is not fixed.
NextDrivers ==
    IF todo = {} THEN {}
    ELSE IF DOMAIN fdeps = {} THEN {FirstOf(todo)}
    ELSE todo

\* Flock.initialize / Flock.finalize (lines 112-114, 137-139) and the entry
\* of initialize_many / finalize_many (lines 262-265, 350-353).
StartCall(c) ==
    /\ pc = "idle"
    /\ c.concurrent => Members \subseteq ConcurrentPool
    /\ call' = c
    /\ lastAdd' = NoAdd
    /\ IF DOMAIN fdeps # {}
       THEN /\ dependencies' = fdeps
            /\ all_members' = Members
            /\ pc' = "enter"
            /\ UNCHANGED groups
       ELSE /\ groups' = <<Members>>
            /\ pc' = "levels"
            /\ UNCHANGED <<dependencies, all_members>>
    /\ UNCHANGED <<dictVars, storeVars, pipeVars, featVars,
                   d, r, drivers, fdeps, gi, todo, cur, devVars, result>>

Initialize ==
    \E conc, onexc, onb, ona, reg \in BOOLEAN :
        StartCall([op |-> "initialize", concurrent |-> conc,
                   on_exception |-> onexc, on_before |-> onb,
                   on_after |-> ona, register_finalizer |-> reg])

Finalize ==
    \E conc, onexc, onb, ona \in BOOLEAN :
        StartCall([op |-> "finalize", concurrent |-> conc,
                   on_exception |-> onexc, on_before |-> onb,
                   on_after |-> ona, register_finalizer |-> FALSE])

\* Lines 265-266 and 353-355: solve_dependencies has returned r.
BuildGroups ==
    /\ pc = "solve"
    /\ DOMAIN d = {}
    /\ groups' = LevelOrder(call.op, r)
    /\ pc' = "levels"
    /\ UNCHANGED <<dictVars, storeVars, pipeVars, featVars,
                   solveVars, flockVars, call, gi, todo, cur, devVars, result>>

\* Lines 267-271 and 355-357: the next level, or the return of the call.
NextLevel ==
    /\ pc = "levels"
    /\ IF gi < Len(groups)
       THEN /\ gi' = gi + 1
            /\ todo' = groups[gi + 1]
            /\ pc' = "loop"
            /\ UNCHANGED result
       ELSE /\ result' = Returned
            /\ pc' = "finished"
            /\ UNCHANGED <<gi, todo>>
    /\ UNCHANGED <<dictVars, storeVars, pipeVars, featVars,
                   solveVars, flockVars, call, groups, cur, devVars>>

\* Lines 303-305 and 382-384: sequential mode takes the next driver and
\* fires the before hook.
SeqBefore(x) ==
    /\ pc = "loop"
    /\ ~call.concurrent
    /\ x \in NextDrivers
    /\ cur' = x
    /\ todo' = todo \ {x}
    /\ before' = IF call.on_before THEN Bump(before, x) ELSE before
    /\ pc' = "call"
    /\ UNCHANGED <<dictVars, storeVars, pipeVars, featVars,
                   solveVars, flockVars, call, groups, gi, result>>
    /\ UNCHANGED <<invoked, fin, after, excCalls, atexit, fut, cbs>>

\* Lines 306-307 and 385-386: driver.initialize() / driver.finalize()
\* returns or raises.
SeqCall ==
    /\ pc = "call"
    /\ invoked' = Bump(invoked, cur)
    /\ \E how \in {"ok", "err"} : fin' = [fin EXCEPT ![cur] = how]
    /\ pc' = "handle"
    /\ UNCHANGED <<dictVars, storeVars, pipeVars, featVars,
                   solveVars, flockVars, loopVars, result>>
    /\ UNCHANGED <<before, after, excCalls, atexit, fut, cbs>>

\* Where the sequential loop goes after the try statement (lines 316-317:
\* only initialize_many registers a finalizer).
AfterTry ==
    IF call.op = "initialize" /\ call.register_finalizer
    THEN "register" ELSE "loop"

\* Lines 308-314 and 387-393: the except and else branches.
SeqHandle ==
    /\ pc = "handle"
    /\ IF fin[cur] = "err"
       THEN IF Raises(call.on_exception)
            THEN /\ result' = Err(cur)
                 /\ pc' = "finished"
                 /\ UNCHANGED <<excCalls, after>>
            ELSE /\ excCalls' = [excCalls EXCEPT ![cur] = Append(@, Err(cur))]
                 /\ pc' = AfterTry
                 /\ UNCHANGED <<result, after>>
       ELSE /\ after' = IF call.on_after THEN Bump(after, cur) ELSE after
            /\ pc' = AfterTry
            /\ UNCHANGED <<result, excCalls>>
    /\ cur' = IF pc' = "loop" THEN "" ELSE cur
    /\ UNCHANGED <<dictVars, storeVars, pipeVars, featVars,
                   solveVars, flockVars, call, groups, gi, todo>>
    /\ UNCHANGED <<before, invoked, fin, atexit, fut, cbs>>

\* Lines 316-317: atexit.register(driver.finalize).
SeqRegister ==
    /\ pc = "register"
    /\ atexit' = Bump(atexit, cur)
    /\ pc' = "loop"
    /\ cur' = ""
    /\ UNCHANGED <<dictVars, storeVars, pipeVars, featVars,
                   solveVars, flockVars, call, groups, gi, todo, result>>
    /\ UNCHANGED <<before, invoked, fin, after, excCalls, fut, cbs>>

\* The end of `for driver in drivers` in sequential mode: the call for this
\* level returns.
SeqLoopEnd ==
    /\ pc = "loop"
    /\ ~call.concurrent
    /\ todo = {}
    /\ pc' = "levels"
    /\ UNCHANGED <<dictVars, storeVars, pipeVars, featVars,
                   solveVars, flockVars, loopVars, devVars, result>>

\* Lines 292-295 and 373-376: concurrent mode takes the next driver, fires
\* the before hook and submits the call to the driver's worker.
ConcSubmit(x) ==
    /\ pc = "loop"
    /\ call.concurrent
    /\ x \in NextDrivers
    /\ cur' = x
    /\ todo' = todo \ {x}
    /\ before' = IF call.on_before THEN Bump(before, x) ELSE before
    /\ fut' = [fut EXCEPT ![x] = "pending"]
    /\ pc' = IF call.op = "initialize" /\ call.register_finalizer
             THEN "addfin" ELSE "adddone"
    /\ UNCHANGED <<dictVars, storeVars, pipeVars, featVars,
                   solveVars, flockVars, call, groups, gi, result>>
    /\ UNCHANGED <<invoked, fin, after, excCalls, atexit, cbs>>

\* Lines 274-277 and 296-297: fut.add_done_callback(_finalize(driver)); the
\* callback registers the finalizer.
ConcAddFinalize ==
    /\ pc = "addfin"
    /\ IF fut[cur] = "finished"
       THEN /\ atexit' = Bump(atexit, cur)
            /\ UNCHANGED cbs
       ELSE /\ cbs' = [cbs EXCEPT ![cur] = Append(@, "finalize")]
            /\ UNCHANGED atexit
    /\ pc' = "adddone"
    /\ UNCHANGED <<dictVars, storeVars, pipeVars, featVars,
                   solveVars, flockVars, loopVars, result>>
    /\ UNCHANGED <<before, invoked, fin, after, excCalls, fut>>

\* Mutant: the callback takes the else branch whatever the future holds.
DoneCallback_AfterOnError(x) ==
    /\ after' = IF call.on_after THEN Bump(after, x) ELSE after
    /\ UNCHANGED excCalls

\* Lines 279-289 and 360-370: the body of the callback _done(d) when it does
\* not raise.
DoneCallback(x) ==
    IF fin[x] = "err"
    THEN /\ excCalls' = IF Raises(call.on_exception) THEN excCalls
                        ELSE [excCalls EXCEPT ![x] = Append(@, Err(x))]
         /\ UNCHANGED after
    ELSE /\ after' = IF call.on_after THEN Bump(after, x) ELSE after
         /\ UNCHANGED excCalls

\* Lines 298-299 and 377-378: fut.add_done_callback(_done(driver)).  On a
\* finished future the callback runs here; when it raises, the error is
\* logged and dropped by Future.add_done_callback (Python 3.8 and later) or
\* leaves the call (Python 3.6 and 3.7, which setup.py line 52 admits).
ConcAddDone ==
    /\ pc = "adddone"
    /\ IF fut[cur] = "finished"
       THEN /\ DoneCallback(cur)
            /\ UNCHANGED cbs
            /\ \/ /\ pc' = "loop"
                  /\ UNCHANGED result
               \/ /\ fin[cur] = "err"
                  /\ Raises(call.on_exception)
                  /\ result' = Err(cur)
                  /\ pc' = "finished"
       ELSE /\ cbs' = [cbs EXCEPT ![cur] = Append(@, "done")]
            /\ pc' = "loop"
            /\ UNCHANGED <<after, excCalls, result>>
    /\ cur' = ""
    /\ UNCHANGED <<dictVars, storeVars, pipeVars, featVars,
                   solveVars, flockVars, call, groups, gi, todo>>
    /\ UNCHANGED <<before, invoked, fin, atexit, fut>>

\* The end of `for driver in drivers` in concurrent mode.
ConcLoopEnd ==
    /\ pc = "loop"
    /\ call.concurrent
    /\ todo = {}
    /\ pc' = "wait"
    /\ UNCHANGED <<dictVars, storeVars, pipeVars, featVars,
                   solveVars, flockVars, loopVars, devVars, result>>

\* Lines 301 and 380: futures.wait(futs), then the call for this level
\* returns.
ConcWait ==
    /\ pc = "wait"
    /\ AllDone(fut, groups[gi])
    /\ pc' = "levels"
    /\ UNCHANGED <<dictVars, storeVars, pipeVars, featVars,
                   solveVars, flockVars, loopVars, devVars, result>>

\* The worker of driver x runs initialize/finalize (line 295, 376), which
\* returns or raises, and sets the future finished.
WorkerRun(x) ==
    /\ fut[x] = "pending"
    /\ invoked' = Bump(invoked, x)
    /\ \E how \in {"ok", "err"} : fin' = [fin EXCEPT ![x] = how]
    /\ fut' = [fut EXCEPT ![x] = "finished"]
    /\ UNCHANGED <<dictVars, storeVars, pipeVars, featVars,
                   solveVars, pc, flockVars, loopVars, result>>
    /\ UNCHANGED <<before, after, excCalls, atexit, cbs>>

\* The worker of driver x invokes the next callback of its finished future
\* (Future._invoke_callbacks); an error raised by the callback (lines 284,
\* 365) is logged and dropped there.
WorkerCallback(x) ==
    /\ fut[x] = "finished"
    /\ cbs[x] # <<>>
    /\ cbs' = [cbs EXCEPT ![x] = Tail(@)]
    /\ IF Head(cbs[x]) = "finalize"
       THEN /\ atexit' = Bump(atexit, x)
            /\ UNCHANGED <<after, excCalls>>
       ELSE /\ DoneCallback(x)
            /\ UNCHANGED atexit
    /\ UNCHANGED <<dictVars, storeVars, pipeVars, featVars,
                   solveVars, pc, flockVars, loopVars, result>>
    /\ UNCHANGED <<before, invoked, fin, fut>>

(***************************************************************************)
(* feat.Feat and action.Action: the middleware stack                        *)
(*                                                                          *)
(* A Feat is a property whose get and set go through the classes Feat       *)
(* inherits from, outermost first; an Action is a method whose call does    *)
(* the same.  Every class wraps super().get/set/call: what it does before   *)
(* the inner call is its way down, what it does after it its way up.  The   *)
(* modelled device class has one Feat with the modifier `values` (a         *)
(* mapping) and one Action whose parameter carries the same modifier.       *)
(***************************************************************************)
\* The instances of the device class and the threads that use them.
Instances == {"x", "y"}

Threads == {"user", "poller"}

\* The threads that set the attribute and call the operation; the other one
\* polls the attribute.
Writers == {"user"}

\* The instances whose instrument changes its value by itself.
Drifting == {"x"}

\* helpers.UNSET: the value of a cache slot nothing was stored in.
UNSET == 0

\* The modifier `values` of the attribute: user value -> raw value.
Values == (1 :> 11) @@ (2 :> 12)

\* The values a set is tried with (3 is no key of Values).
UserValues == {1, 2, 3}

\* The arguments a call is tried with.
CallValues == {1, 3}

\* The raw values the instrument or a simulator can hold (13 is no value of
\* Values).
RawValues == {11, 12, 13}

\* processors.mapper: container[key], ValueError when key is no key.
Mapper(container, key) ==
    IF key \in DOMAIN container
    THEN [ok |-> TRUE, v |-> container[key]]
    ELSE [ok |-> FALSE, v |-> key]

\* processors.reverse_mapper_or_checker: {value: key for key, value in
\* container.items()}.
Reversed(container) ==
    [rv \in {container[k] : k \in DOMAIN container} |->
        CHOOSE k \in DOMAIN container : container[k] = rv]

\* Feat.rebuild: with `values` alone the set pipeline is the mapper and the
\* get pipeline the reverse mapper.
PreSet(value) == Mapper(Values, value)

PostGet(value) == Mapper(Reversed(Values), value)

\* Mutant: ObservableProperty is missing from the bases.
FeatMRO_NoObservable ==
    <<"Lock", "PreventUnnecessarySet", "ReadOnce", "Transform", "Log",
      "Stats", "Sim">>

\* Mutant: no class of the stack takes the lock.
FeatMRO_NoLock ==
    <<"Observable", "PreventUnnecessarySet", "ReadOnce", "Transform",
      "Log", "Stats", "Sim">>

\* Mutant: the statistics are the outermost class after the lock.
FeatMRO_StatsOuter ==
    <<"Lock", "Stats", "Observable", "PreventUnnecessarySet", "ReadOnce",
      "Transform", "Log", "Sim">>

\* Mutant: ReadOnceProperty is missing from the bases.
FeatMRO_NoReadOnce ==
    <<"Lock", "Observable", "PreventUnnecessarySet", "Transform", "Log",
      "Stats", "Sim">>

\* Mutant: the change notification is the innermost class but the
\* simulator.
FeatMRO_ObservableInner ==
    <<"Lock", "PreventUnnecessarySet", "ReadOnce", "Transform", "Log",
      "Stats", "Observable", "Sim">>

\* Mutant: the pipelines are applied outside the cache classes.
FeatMRO_TransformOuter ==
    <<"Lock", "Transform", "Observable", "PreventUnnecessarySet", "ReadOnce",
      "Log", "Stats", "Sim">>

\* class Feat(LockProperty, ObservableProperty,
\* PreventUnnecessarySetProperty, ReadOnceProperty, TransformProperty,
\* LogProperty, StatsProperty, SimProperty): the stack, outermost first.
FeatMRO ==
    <<"Lock", "Observable", "PreventUnnecessarySet", "ReadOnce", "Transform",
      "Log", "Stats", "Sim">>

\* Mutant: LockMethod is missing from the bases.
ActionMRO_NoLock == <<"Transform", "Log", "Stats", "Sim">>

\* class Action(LockMethod, TransformMethod, LogMethod, StatsMethod,
\* SimMethod).
ActionMRO == <<"Lock", "Transform", "Log", "Stats", "Sim">>

Stack(op) == IF op = "call" THEN ActionMRO ELSE FeatMRO

\* The messages of the log classes.
LogStart(op) ==
    CASE op = "get" -> "Getting" [] op = "set" -> "Setting"
      [] OTHER -> "Calling"

LogDone(op) ==
    CASE op = "get" -> "Got" [] op = "set" -> "was set" [] OTHER -> "Called"

LogFailed(op) ==
    CASE op = "get" -> "While getting" [] op = "set" -> "While setting"
      [] OTHER -> "While calling"

\* The keys of the statistics classes.
StatKey(op, ok) ==
    CASE op = "get" -> (IF ok THEN "stats.get" ELSE "stats.failed_get")
      [] op = "set" -> (IF ok THEN "stats.set" ELSE "stats.failed_set")
      [] OTHER -> (IF ok THEN "stats.call" ELSE "stats.failed_call")

\* The underlying accessor of an operation: fget, fset or the method.
HasAccessor(op) ==
    CASE op = "get" -> feat.fget [] op = "set" -> feat.fset [] OTHER -> TRUE

AccessorName(op) ==
    CASE op = "get" -> "fget" [] op = "set" -> "fset" [] OTHER -> "func"

SimName(op) ==
    CASE op = "get" -> "sim.get" [] op = "set" -> "sim.set"
      [] OTHER -> "sim.call"

\* Mutant: the simulator intercepts whether or not the accessor exists.
Intercepts_Always(op) == feat.simulator

\* Mutant: the simulator is never asked.
Intercepts_Never(op) == FALSE

\* SimProperty.get/set: `if self._simulator and self.fget` (`self.fset`);
\* SimMethod.call: `if self._simulator`.
Intercepts(op) == feat.simulator /\ HasAccessor(op)

\* An operation on its way through the stack: the value it carries, the cache
\* slot as it was when the operation took the lock, how far it is ("go":
\* going down, "call": in the accessor or the simulator, "return", "raise"),
\* the error it raises, the class it stopped at, the value every class saw on
\* the way down, what it logged, counted, called and notified so far, what
\* it stored in the cache slot, and the (old_value, new_value) it emitted.
NewOp(value, slot) ==
    [val |-> value, old |-> slot, st |-> "go", err |-> "", depth |-> 0,
     seen |-> <<>>, trace |-> <<>>, callee |-> "",
     stored |-> FALSE, store |-> UNSET, emit |-> <<>>]

\* What class L does before it calls super().
DownLayer(L, op, c) ==
    CASE L = "PreventUnnecessarySet" /\ op = "set" /\ c.val = c.old ->
             [c EXCEPT !.st = "return",
                       !.trace = Append(@, "No need to set")]
      [] L = "ReadOnce" /\ op = "get" /\ feat.read_once /\ c.old # UNSET ->
             [c EXCEPT !.st = "return", !.val = c.old]
      [] L = "Transform" /\ op \in {"set", "call"} ->
             IF PreSet(c.val).ok
             THEN [c EXCEPT !.val = PreSet(c.val).v]
             ELSE [c EXCEPT !.st = "raise", !.err = "ValueError"]
      [] L = "Log" -> [c EXCEPT !.trace = Append(@, LogStart(op))]
      [] L = "Sim" /\ Intercepts(op) ->
             [c EXCEPT !.st = "call", !.callee = SimName(op),
                       !.trace = Append(@, SimName(op))]
      [] OTHER -> c

\* The way down from class k of the stack: it ends in a class that returns or
\* raises by itself, in the simulator, or below the stack in the accessor
\* (NamedProperty: AttributeError when the accessor is None).
RECURSIVE Down(_, _, _, _)
Down(layers, k, op, c) ==
    IF k > Len(layers)
    THEN IF HasAccessor(op)
         THEN [c EXCEPT !.st = "call", !.depth = k,
                        !.callee = AccessorName(op),
                        !.trace = Append(@, AccessorName(op))]
         ELSE [c EXCEPT !.st = "raise", !.depth = k,
                        !.err = "AttributeError"]
    ELSE LET c1 == DownLayer(layers[k], op,
                             [c EXCEPT !.seen = Append(@, c.val)])
         IN  IF c1.st # "go"
             THEN [c1 EXCEPT !.depth = k]
             ELSE Down(layers, k + 1, op, c1)

\* What class L, the k-th of the stack, does after super() returned or
\* raised.
UpLayer(L, op, c, k) ==
    CASE L = "Stats" ->
             [c EXCEPT !.trace = Append(@, StatKey(op, c.st = "return"))]
      [] L = "Log" ->
             [c EXCEPT !.trace = Append(@, IF c.st = "return"
                                           THEN LogDone(op)
                                           ELSE LogFailed(op))]
      [] L = "Transform" /\ op = "get" /\ c.st = "return" ->
             IF PostGet(c.val).ok
             THEN [c EXCEPT !.val = PostGet(c.val).v]
             ELSE [c EXCEPT !.st = "raise", !.err = "ValueError"]
      [] L = "ReadOnce" /\ op = "get" /\ c.st = "return" ->
             [c EXCEPT !.stored = TRUE, !.store = c.val]
      [] L = "PreventUnnecessarySet" /\ op = "set" /\ c.st = "return" ->
             [c EXCEPT !.stored = TRUE, !.store = c.seen[k]]
      [] L = "Observable" /\ op \in {"get", "set"} /\ c.st = "return" ->
             LET new == IF op = "get" THEN c.val ELSE c.seen[k]
             IN  IF new # c.old
                 THEN [c EXCEPT !.trace = Append(@, "changed"),
                                !.emit = <<c.old, new>>]
                 ELSE c
      [] OTHER -> c

\* The way up from class k to the outermost class.
RECURSIVE Up(_, _, _, _)
Up(layers, k, op, c) ==
    IF k = 0 THEN c ELSE Up(layers, k - 1, op, UpLayer(layers[k], op, c, k))

\* Mutant: the cache lives in the attribute, which the instances share.
Slot_Shared(i) == "x"

\* _storage_ns_init = lambda instance: defaultdict(dict): the storage of the
\* cache is made for every instance, the slot of instance i is its own.
Slot(i) == i

\* The outermost class takes instance.lock.
Locks(op) == Head(Stack(op)) = "Lock"

IdleThread ==
    [pc |-> "idle", op |-> "none", inst |-> "", arg |-> UNSET,
     c |-> NewOp(UNSET, UNSET)]

\* A thread starts a get, set or call on instance i: it takes the lock and
\* goes down the stack, into the accessor or the simulator ("in") or to the
\* class that ends the operation ("out").
Enter(t, op, i, v) ==
    /\ pc = "feat"
    /\ th[t].pc = "idle"
    /\ Locks(op) => lock[i] = "free"
    /\ LET c == Down(Stack(op), 1, op,
                     NewOp(v, IF op = "call" THEN UNSET
                              ELSE cache[Slot(i)]))
       IN  th' = [th EXCEPT ![t] =
                     [pc |-> IF c.st = "call" THEN "in" ELSE "out",
                      op |-> op, inst |-> i, arg |-> v, c |-> c]]
    /\ lock' = IF Locks(op) THEN [lock EXCEPT ![i] = t] ELSE lock
    /\ UNCHANGED <<feat, device, cache, done>>
    /\ UNCHANGED <<solveVars, pc, flockVars, loopVars, devVars, result,
                 pipeVars, dictVars, storeVars>>

Get(t, i) == Enter(t, "get", i, UNSET)

Set(t, i, v) == Enter(t, "set", i, v)

Call(t, i, v) == Enter(t, "call", i, v)

\* What the accessor or the simulator does: fget reads the instrument, fset
\* writes it, a simulator gives any raw value; each of them may raise.
Underlying(c, i, how, raw) ==
    IF how = "err" THEN [c EXCEPT !.st = "raise", !.err = "DeviceError"]
    ELSE CASE c.callee = "fget" -> [c EXCEPT !.st = "return", !.val = device[i]]
           [] c.callee = "sim.get" -> [c EXCEPT !.st = "return", !.val = raw]
           [] OTHER -> [c EXCEPT !.st = "return"]

\* The operation of thread t ends: the accessor or the simulator returns or
\* raises, the classes above it do their way up, the lock is released; done
\* keeps the operation as it ended.
Leave(t) ==
    /\ pc = "feat"
    /\ th[t].pc \in {"in", "out"}
    /\ LET me == th[t]
           i == me.inst
       IN  \E how \in {"ok", "err"} : \E raw \in RawValues :
              LET c1 == IF me.pc = "in"
                        THEN Underlying(me.c, i, how, raw)
                        ELSE me.c
                  c2 == Up(Stack(me.op), me.c.depth - 1, me.op, c1)
              IN  /\ me.pc = "out" => (how = "ok" /\ raw = 11)
                  /\ (me.pc = "in" /\ me.c.callee # "sim.get") => raw = 11
                  /\ device' = IF me.pc = "in" /\ how = "ok"
                                    /\ me.c.callee = "fset"
                               THEN [device EXCEPT ![i] = me.c.val]
                               ELSE device
                  /\ cache' = IF c2.stored
                              THEN [cache EXCEPT ![Slot(i)] = c2.store]
                              ELSE cache
                  /\ done' = [me EXCEPT !.pc = "done", !.c = c2]
                  /\ th' = [th EXCEPT ![t] = IdleThread]
                  /\ lock' = IF Locks(me.op)
                             THEN [lock EXCEPT ![i] = "free"]
                             ELSE lock
    /\ UNCHANGED feat
    /\ UNCHANGED <<solveVars, pc, flockVars, loopVars, devVars, result,
                 pipeVars, dictVars, storeVars>>

\* The instrument changes its value by itself, behind the cache.
Drift(i, raw) ==
    /\ pc = "feat"
    /\ raw # device[i]
    /\ device' = [device EXCEPT ![i] = raw]
    /\ UNCHANGED <<feat, cache, lock, th, done>>
    /\ UNCHANGED <<solveVars, pc, flockVars, loopVars, devVars, result,
                 pipeVars, dictVars, storeVars>>

\* The attribute of the device class: whether it is read-once, whether a
\* simulator is attached, whether it defines a getter and a setter.
FeatConfigs ==
    {f \in [read_once : BOOLEAN, simulator : BOOLEAN,
            fget : BOOLEAN, fset : BOOLEAN] : f.fget \/ f.fset}

\* No device class with attributes has been declared: there is no attribute,
\* no instance and no thread using one.
NoInstances ==
    /\ feat = <<>>
    /\ device = <<>>
    /\ cache = <<>>
    /\ lock = <<>>
    /\ th = <<>>
    /\ done = <<>>

\* No instance has been used yet.
NoFeat ==
    /\ device = [i \in Instances |-> 11]
    /\ cache = [i \in Instances |-> UNSET]
    /\ lock = [i \in Instances |-> "free"]
    /\ th = [t \in Threads |-> IdleThread]
    /\ done = IdleThread

(***************************************************************************)
(* Pipelines: processors.Processor, the standard converters, and the       *)
(* pipelines Feat.rebuild and Action.build_converter make of the           *)
(* modifiers.                                                              *)
(***************************************************************************)
\* The longest get_funcs, set_funcs or funcs list.
MaxFuncs == 2

\* The units the attribute is declared with (units='ms').
Units == "ms"

\* The limits the attribute is declared with (limits=(1, 12)): low, high.
Limits == <<1, 12>>

\* A value: the bare number m when u = "", the quantity Q_(m, u) else.
Q(m, u) == [m |-> m, u |-> u]

\* What a step gives: the value it returns, or the ValueError it raises.
Ok(x) == [ok |-> TRUE, v |-> x]

Fail(x) == [ok |-> FALSE, v |-> x]

\* value.to(units): how many `Units` one u is; 0 when u cannot be
\* converted (pint raises).
Factor(u) == CASE u = "ms" -> 1 [] u = "s" -> 1000 [] OTHER -> 0

\* processors.convert_to(units, return_float)._inner with the default
\* policies: a quantity is converted (an incompatible one raises), a bare
\* number is taken to be in the target units.
ConvertTo(return_float, x) ==
    IF x.u # ""
    THEN IF Factor(x.u) # 0
         THEN Ok(Q(x.m * Factor(x.u), IF return_float THEN "" ELSE Units))
         ELSE Fail(x)
    ELSE Ok(Q(x.m, IF return_float THEN "" ELSE Units))

\* processors.mapper(container)._inner on a value: a quantity is no key of
\* the container.
MapperStep(container, x) ==
    IF x.u = "" /\ Mapper(container, x.m).ok
    THEN Ok(Q(Mapper(container, x.m).v, ""))
    ELSE Fail(x)

\* processors.range_checker_coercer(low, high)._inner, step None.
RangeStep(x) ==
    IF x.u = "" /\ Limits[1] <= x.m /\ x.m <= Limits[2]
    THEN Ok(x)
    ELSE Fail(x)

\* The custom functions of the declarations: f1 adds one, f2 doubles.
CustomFuncs == {"f1", "f2"}

\* One step of a pipeline applied to a value.
StepCall(func, x) ==
    CASE func = "to_magnitude" -> ConvertTo(TRUE, x)
      [] func = "to_quantity" -> ConvertTo(FALSE, x)
      [] func = "mapper" -> MapperStep(Values, x)
      [] func = "reverse_mapper" -> MapperStep(Reversed(Values), x)
      [] func = "range_checker" -> RangeStep(x)
      [] func = "f1" -> Ok(Q(x.m + 1, x.u))
      [] OTHER -> Ok(Q(x.m * 2, x.u))

\* Processor.__call__ on a value that is no tuple: `for func in
\* self._funcs: value = func(value)`, from step k on; steps are the
\* functions called so far.
RECURSIVE ProcessorCall(_, _, _, _)
ProcessorCall(funcs, k, x, steps) ==
    IF k > Len(funcs)
    THEN [ok |-> TRUE, v |-> x, steps |-> steps]
    ELSE LET y == StepCall(funcs[k], x)
         IN  IF y.ok
             THEN ProcessorCall(funcs, k + 1, y.v, Append(steps, funcs[k]))
             ELSE [ok |-> FALSE, v |-> x, steps |-> Append(steps, funcs[k])]

\* Mutant: __reversed__ gives the same order back.
ProcessorReversed_Same(funcs) == funcs

\* Processor.__reversed__: self.__class__(*reversed(self._funcs)).
ProcessorReversed(funcs) ==
    [k \in 1..Len(funcs) |-> funcs[Len(funcs) + 1 - k]]

\* `for func in funcs: if func is not None: append(Processor(func))`.
NotNone(funcs) == SelectSeq(funcs, LAMBDA f : f # "None")

\* `if c: p.append(func)`.
AppendIf(c, p, func) == IF c THEN Append(p, func) ELSE p

\* Mutant: the value mapper is appended before the unit converter.
Rebuild_ValuesFirst(m) ==
    [kind |-> "feat",
     post_get |-> ProcessorReversed(
         AppendIf(m.units, AppendIf(m.values, <<>>, "reverse_mapper"),
                  "to_quantity") \o NotNone(m.get_funcs)),
     pre_set |-> AppendIf(m.limits,
         AppendIf(m.units, AppendIf(m.values, <<>>, "mapper"),
                  "to_magnitude"), "range_checker")
         \o NotNone(m.set_funcs),
     param |-> <<>>, ret |-> <<>>]

\* Feat.rebuild: the get pipeline is units, values, get_funcs appended in
\* this order and then reversed, the set pipeline is units, values, limits,
\* set_funcs appended in this order.
Rebuild(m) ==
    [kind |-> "feat",
     post_get |-> ProcessorReversed(
         AppendIf(m.values, AppendIf(m.units, <<>>, "to_quantity"),
                  "reverse_mapper") \o NotNone(m.get_funcs)),
     pre_set |-> AppendIf(m.limits,
         AppendIf(m.values, AppendIf(m.units, <<>>, "to_magnitude"),
                  "mapper"), "range_checker")
         \o NotNone(m.set_funcs),
     param |-> <<>>, ret |-> <<>>]

\* Action.build_converter: values, units, limits, funcs appended in this
\* order.
BuildConverter(values, units, limits, funcs) ==
    AppendIf(limits,
        AppendIf(units, AppendIf(values, <<>>, "mapper"), "to_magnitude"),
        "range_checker") \o funcs

\* The lists of custom functions a declaration may give.
FuncLists ==
    {f \in UNION {[1..n -> CustomFuncs \cup {"None"}] : n \in 0..MaxFuncs} :
        \A i, j \in DOMAIN f : i # j => f[i] # f[j]}

\* The modifiers of a declaration.
ModifierSpecs ==
    [units : BOOLEAN, values : BOOLEAN, limits : BOOLEAN,
     get_funcs : FuncLists, set_funcs : FuncLists]

\* The values a caller passes and the raw values an instrument returns.
UserInputs == {Q(m, u) : m \in {1, 2, 3}, u \in {"", "ms", "s", "V"}}

RawInputs == {Q(m, "") : m \in {5, 10, 11, 12, 13}}

NoProcs ==
    [kind |-> "none", post_get |-> <<>>, pre_set |-> <<>>,
     param |-> <<>>, ret |-> <<>>]

NotApplied ==
    [which |-> "none", input |-> Q(0, ""), ok |-> TRUE, v |-> Q(0, ""),
     steps |-> <<>>]

\* The attribute is declared: __set_name__ calls self.rebuild().
FeatRebuild ==
    /\ pc = "pipe"
    /\ procs.kind = "none"
    /\ procs' = Rebuild(modifiers)
    /\ UNCHANGED <<modifiers, applied>>
    /\ UNCHANGED <<solveVars, pc, flockVars, loopVars, devVars, result,
                   featVars, dictVars, storeVars>>

\* The operation is declared with @Action.param(...) and @Action.ret(...),
\* each of which calls build_converter (a None among the funcs would fail
\* Processor.append's assertion).
ActionBuild ==
    /\ pc = "pipe"
    /\ procs.kind = "none"
    /\ NotNone(modifiers.set_funcs) = modifiers.set_funcs
    /\ NotNone(modifiers.get_funcs) = modifiers.get_funcs
    /\ procs' = [kind |-> "action", post_get |-> <<>>, pre_set |-> <<>>,
                 param |-> BuildConverter(modifiers.values, modifiers.units,
                                          modifiers.limits,
                                          modifiers.set_funcs),
                 ret |-> BuildConverter(modifiers.values, modifiers.units,
                                        modifiers.limits,
                                        modifiers.get_funcs)]
    /\ UNCHANGED <<modifiers, applied>>
    /\ UNCHANGED <<solveVars, pc, flockVars, loopVars, devVars, result,
                   featVars, dictVars, storeVars>>

\* A pipeline of the declaration is applied to x.
Applying(which, funcs, x) ==
    /\ pc = "pipe"
    /\ applied' = [which |-> which, input |-> x]
                     @@ ProcessorCall(funcs, 1, x, <<>>)
    /\ UNCHANGED <<modifiers, procs>>
    /\ UNCHANGED <<solveVars, pc, flockVars, loopVars, devVars, result,
                   featVars, dictVars, storeVars>>

\* set: the value of the caller goes through pre_set.
PreSetCall(x) == procs.kind = "feat" /\ Applying("pre_set", procs.pre_set, x)

\* get: the raw value of the getter goes through post_get.
PostGetCall(x) ==
    procs.kind = "feat" /\ Applying("post_get", procs.post_get, x)

\* call: an argument goes through the pipeline of its parameter.
ParamCall(x) == procs.kind = "action" /\ Applying("param", procs.param, x)

\* call: the result of the method goes through the pipeline of '<ret>'.
RetCall(x) == procs.kind = "action" /\ Applying("ret", procs.ret, x)

\* No attribute or operation has been declared.
NoPipes ==
    /\ modifiers = <<>>
    /\ procs = <<>>
    /\ applied = <<>>

\* No keyed attribute has been declared.
NoDicts ==
    /\ keys = <<>>
    /\ kdev = <<>>
    /\ kcache = <<>>
    /\ klast = <<>>
    /\ dconf = <<>>
    /\ subs = <<>>
    /\ slast = <<>>

(***************************************************************************)
(* The keyed attribute and its keys: DictFeat(keys=...), as the tests      *)
(* test_keys and test_keys_mapping declare it.                             *)
(***************************************************************************)
\* @DictFeat(keys=('answer', )).
KeySet == {"answer"}

\* Mutant: the mapping takes the internal name as its external name.
KeyMap_Internal == [k \in {"answer"} |-> "answer"]

\* @DictFeat(keys={28: 'answer'}): external key name -> internal key.
KeyMap == [k \in {"28"} |-> "answer"]

\* The keys a caller asks for.
AskedKeys == {"answer", "28", "spam"}

\* The declarations of the keyed attribute.
KeyRestrictions == {"set", "map"}

\* The keys the declaration accepts.
ValidKeys == IF keys = "set" THEN KeySet ELSE DOMAIN KeyMap

\* The key the getter and the setter are called with.
InternalKey(key) == IF keys = "set" THEN key ELSE KeyMap[key]

NoKeyedOp ==
    [op |-> "none", key |-> "", arg |-> UNSET, st |-> "return", err |-> "",
     passed |-> "", val |-> UNSET]

\* obj.eggs[key]: a key outside the restriction is a KeyError; else the
\* getter is called with the internal key and its value goes through the
\* get pipeline and into the cache slot of the key.
KeyedGet(key) ==
    /\ pc = "keys"
    /\ IF key \notin ValidKeys
       THEN /\ klast' = [NoKeyedOp EXCEPT !.op = "get", !.key = key,
                                          !.st = "raise", !.err = "KeyError"]
            /\ UNCHANGED <<kdev, kcache>>
       ELSE LET k == InternalKey(key)
                out == PostGet(kdev[k])
            IN  /\ klast' = [op |-> "get", key |-> key, arg |-> UNSET,
                             st |-> IF out.ok THEN "return" ELSE "raise",
                             err |-> IF out.ok THEN "" ELSE "ValueError",
                             passed |-> k,
                             val |-> IF out.ok THEN out.v ELSE UNSET]
                /\ kcache' = IF out.ok THEN [kcache EXCEPT ![key] = out.v]
                             ELSE kcache
                /\ UNCHANGED kdev
    /\ UNCHANGED keys
    /\ UNCHANGED <<solveVars, pc, flockVars, loopVars, devVars, result,
                   featVars, pipeVars, storeVars>>

\* obj.eggs[key] = value: a key outside the restriction is a KeyError; else
\* the set of the sub-attribute of the key: nothing when the value is the
\* cached one, else the set pipeline and the setter with the internal key.
KeyedSet(key, value) ==
    /\ pc = "keys"
    /\ IF key \notin ValidKeys
       THEN /\ klast' = [NoKeyedOp EXCEPT !.op = "set", !.key = key,
                                          !.arg = value,
                                          !.st = "raise", !.err = "KeyError"]
            /\ UNCHANGED <<kdev, kcache>>
       ELSE LET k == InternalKey(key)
                in == PreSet(value)
                sent == kcache[key] # value /\ in.ok
            IN  /\ klast' = [op |-> "set", key |-> key, arg |-> value,
                             st |-> IF kcache[key] = value \/ in.ok
                                    THEN "return" ELSE "raise",
                             err |-> IF kcache[key] = value \/ in.ok
                                     THEN "" ELSE "ValueError",
                             passed |-> IF sent THEN k ELSE "",
                             val |-> UNSET]
                /\ kdev' = IF sent THEN [kdev EXCEPT ![k] = in.v] ELSE kdev
                /\ kcache' = IF sent THEN [kcache EXCEPT ![key] = value]
                             ELSE kcache
    /\ UNCHANGED keys
    /\ UNCHANGED <<solveVars, pc, flockVars, loopVars, devVars, result,
                   featVars, pipeVars, storeVars>>

\* The instrument changes the value of an internal key by itself.
KeyedDrift(k, raw) ==
    /\ pc = "keys"
    /\ raw # kdev[k]
    /\ kdev' = [kdev EXCEPT ![k] = raw]
    /\ UNCHANGED <<keys, kcache, klast>>
    /\ UNCHANGED <<solveVars, pc, flockVars, loopVars, devVars, result,
                   featVars, pipeVars, storeVars>>

(***************************************************************************)
(* Modifiers per class and per instance: the keyed attribute, its          *)
(* sub-attributes and the proxies of feat.py.                              *)
(***************************************************************************)
\* The keys of the keyed attribute (test_in_instance: keys=(1, 2, 3)).
DictKeys == {1, 2}

\* The units a declaration or an override may give.
UnitChoices == {"ms", "s"}

\* The modifiers that make Feat and DictFeat rebuild their pipelines.
RebuildKeys == {"values", "units", "limits", "get_funcs", "set_funcs"}

\* The names a caller reads or writes through a proxy.
Items == {"units", "color"}

\* A store with the class default v and no override.
NewStore(v) == [default |-> v, over |-> [i \in Instances |-> "unset"]]

\* config_get(instance, key): the override of the instance if there is
\* one, else the class default; "class" stands for instance=None.
ConfigGet(store, i) ==
    IF i # "class" /\ store.over[i] # "unset"
    THEN store.over[i]
    ELSE store.default

\* config_set(instance, key, value) on the store of one modifier.
ConfigSet(store, i, v) ==
    IF i = "class"
    THEN [store EXCEPT !.default = v]
    ELSE [store EXCEPT !.over[i] = v]

\* config_set on the stores of an attribute, by name of the modifier.
SetItem(conf, item, i, v) ==
    [k \in DOMAIN conf \cup {item} |->
        IF k # item THEN conf[k]
        ELSE ConfigSet(IF item \in DOMAIN conf THEN conf[item]
                       ELSE NewStore("unset"), i, v)]

\* A key whose sub-attribute has not been asked for yet.
NoSub ==
    [made |-> FALSE, conf |-> [units |-> NewStore("unset")],
     post_get |-> NewStore("unset")]

\* Feat.rebuild(instance): the pipelines are made of the modifiers in
\* effect for the instance and stored for this instance (for the class
\* when instance is None); a get pipeline is known by the units its
\* converter gives.
RebuildFor(f, i) ==
    [f EXCEPT !.post_get = ConfigSet(@, i, ConfigGet(f.conf.units, i))]

\* config_set on a Feat, then Feat.on_config_set: rebuild(instance) when
\* the key is one of the five modifiers.
FeatConfigSet(f, i, item, v) ==
    LET g == [f EXCEPT !.conf = SetItem(@, item, i, v)]
    IN  IF item \in RebuildKeys THEN RebuildFor(g, i) ELSE g

\* DictFeat.build_subproperty(key, fget, fset, instance): a Feat made with
\* dict(self.config_iter(instance)), whose __set_name__ rebuilds for the
\* class.
BuildSubproperty(i) ==
    RebuildFor([made |-> TRUE,
                conf |-> [units |-> NewStore(ConfigGet(dconf.units, i))],
                post_get |-> NewStore("unset")], "class")

\* subproperty(instance, key): the sub-attribute of the key, built when it
\* is asked for the first time.
Subproperty(i, k) == IF subs[k].made THEN subs[k] ELSE BuildSubproperty(i)

\* DictFeat.on_config_set: `for _, subprop in self._subproperties.items():
\* setattr(subprop, key, value)`, a plain setattr whatever the instance.
DictOnConfigSet(i, item, v) ==
    IF item \notin RebuildKeys THEN subs
    ELSE [k \in DictKeys |->
             IF subs[k].made THEN FeatConfigSet(subs[k], "class", item, v)
             ELSE subs[k]]

\* Mutant: the proxies take any name for a modifier.
Recognized_Any(item) == TRUE

\* FeatProxy, DictFeatProxy: `item in self.proxied._config.keys()`.
Recognized(item) == item \in DOMAIN dconf

NoAccess ==
    [op |-> "none", on |-> "", inst |-> "", key |-> 0, item |-> "",
     arg |-> "", err |-> "", val |-> ""]

\* x.eggs[k] or x.dictfeats.eggs[k]: the sub-attribute is materialized.
Materialize(i, k) ==
    /\ pc = "store"
    /\ ~subs[k].made
    /\ subs' = [subs EXCEPT ![k] = BuildSubproperty(i)]
    /\ UNCHANGED <<dconf, slast>>
    /\ UNCHANGED <<solveVars, pc, flockVars, loopVars, devVars, result,
                   featVars, pipeVars, dictVars>>

\* Spam.eggs.units = v: the class default of the keyed attribute.
DictClassSet(v) ==
    /\ pc = "store"
    /\ dconf' = SetItem(dconf, "units", "class", v)
    /\ subs' = DictOnConfigSet("class", "units", v)
    /\ slast' = [NoAccess EXCEPT !.op = "setattr", !.on = "dict",
                                 !.inst = "class", !.item = "units",
                                 !.arg = v]
    /\ UNCHANGED <<solveVars, pc, flockVars, loopVars, devVars, result,
                   featVars, pipeVars, dictVars>>

\* x.dictfeats.eggs.item = v: DictFeatProxy.__setattr__.
DictProxySetattr(i, item, v) ==
    /\ pc = "store"
    /\ IF ~Recognized(item)
       THEN /\ slast' = [NoAccess EXCEPT !.op = "setattr", !.on = "dict",
                                         !.inst = i, !.item = item,
                                         !.arg = v, !.err = "AttributeError"]
            /\ UNCHANGED <<dconf, subs>>
       ELSE /\ dconf' = SetItem(dconf, item, i, v)
            /\ subs' = DictOnConfigSet(i, item, v)
            /\ slast' = [NoAccess EXCEPT !.op = "setattr", !.on = "dict",
                                         !.inst = i, !.item = item,
                                         !.arg = v]
    /\ UNCHANGED <<solveVars, pc, flockVars, loopVars, devVars, result,
                   featVars, pipeVars, dictVars>>

\* x.dictfeats.eggs[k].item = v: DictFeatProxy.__getitem__, then
\* FeatProxy.__setattr__.
FeatProxySetattr(i, k, item, v) ==
    /\ pc = "store"
    /\ IF ~Recognized(item)
       THEN /\ slast' = [NoAccess EXCEPT !.op = "setattr", !.on = "sub",
                                         !.inst = i, !.key = k,
                                         !.item = item, !.arg = v,
                                         !.err = "AttributeError"]
            /\ subs' = [subs EXCEPT ![k] = Subproperty(i, k)]
       ELSE /\ subs' = [subs EXCEPT ![k] =
                           FeatConfigSet(Subproperty(i, k), i, item, v)]
            /\ slast' = [NoAccess EXCEPT !.op = "setattr", !.on = "sub",
                                         !.inst = i, !.key = k,
                                         !.item = item, !.arg = v]
    /\ UNCHANGED dconf
    /\ UNCHANGED <<solveVars, pc, flockVars, loopVars, devVars, result,
                   featVars, pipeVars, dictVars>>

\* x.dictfeats.eggs[k].item: DictFeatProxy.__getitem__, then
\* FeatProxy.__getattr__: config_get for a modifier, AttributeError for a
\* name the attribute does not have.
FeatProxyGetattr(i, k, item) ==
    /\ pc = "store"
    /\ subs' = [subs EXCEPT ![k] = Subproperty(i, k)]
    /\ slast' = IF item \in DOMAIN dconf
                THEN [NoAccess EXCEPT !.op = "getattr", !.on = "sub",
                         !.inst = i, !.key = k, !.item = item,
                         !.val = ConfigGet(Subproperty(i, k).conf[item], i)]
                ELSE [NoAccess EXCEPT !.op = "getattr", !.on = "sub",
                         !.inst = i, !.key = k, !.item = item,
                         !.err = "AttributeError"]
    /\ UNCHANGED dconf
    /\ UNCHANGED <<solveVars, pc, flockVars, loopVars, devVars, result,
                   featVars, pipeVars, dictVars>>

\* The modifier in effect for instance i on key k, and on the keyed
\* attribute itself.
EffectiveUnits(i, k) == ConfigGet(subs[k].conf.units, i)

DictUnits(i) == ConfigGet(dconf.units, i)

\* x.eggs[k] with a getter that returns 9: the value after the get pipeline
\* of the instance.
Reading(i, k) == Q(9, ConfigGet(subs[k].post_get, i))

Init ==
    /\ dependencies = EmptyMap
    /\ all_members = {}
    /\ d = EmptyMap
    /\ r = <<>>
    /\ pc = "idle"
    /\ NoFlock
    /\ NoInstances
    /\ NoPipes
    /\ NoDicts

Next ==
    \/ \E name \in AddNames : \E deps \in SUBSET DepPool : Add(name, deps)
    \/ Initialize
    \/ Finalize
    \/ SolveEnter
    \/ SolveStep
    \/ BuildGroups
    \/ NextLevel
    \/ \E x \in DriverPool : SeqBefore(x)
    \/ SeqCall
    \/ SeqHandle
    \/ SeqRegister
    \/ SeqLoopEnd
    \/ \E x \in DriverPool : ConcSubmit(x)
    \/ ConcAddFinalize
    \/ ConcAddDone
    \/ ConcLoopEnd
    \/ ConcWait
    \/ \E x \in DriverPool : WorkerRun(x)
    \/ \E x \in DriverPool : WorkerCallback(x)

Spec == Init /\ [][Next]_vars

(***************************************************************************)
(* What the claims about the flock and its orchestrator speak of.          *)
(***************************************************************************)
\* The declared dependencies of driver x.
FlockDeps(x) == IF x \in DOMAIN fdeps THEN fdeps[x] ELSE {}

\* Driver x has been started in the running call: its before hook fired, its
\* call was handed to its worker, or its initialize/finalize was invoked.
Started(x) == before[x] > 0 \/ fut[x] # "none" \/ invoked[x] > 0

Failed == {x \in DriverPool : fin[x] = "err"}

\* The call has ended and no worker has anything left to do.
Quiescent ==
    /\ pc = "finished"
    /\ \A x \in DriverPool : fut[x] # "pending" /\ cbs[x] = <<>>

\* C5: Flock.add fails with ValueError when a dependency is no member yet,
\* and also for a name that is no identifier, that is an attribute of Flock
\* or that is taken; a failed add leaves the drivers and the dependency map
\* as they were.  (A step from idle to idle is a Flock.add call, whose
\* arguments and outcome are lastAdd'.)
C5_FailedAddChangesNothing ==
    [][(pc = "idle" /\ pc' = "idle") =>
          /\ (lastAdd'.deps \ Members # {}) => lastAdd'.outcome = "ValueError"
          /\ (\/ ~IsIdentifier(lastAdd'.name)
              \/ lastAdd'.name \in DirFlock
              \/ lastAdd'.name \in Members) => lastAdd'.outcome = "ValueError"
          /\ lastAdd'.outcome = "ValueError" =>
                (drivers' = drivers /\ fdeps' = fdeps)]_vars

\* C5 witness: an add naming a dependency that is no member has failed on a
\* flock that holds drivers and dependencies.
C5_Witness ==
    /\ lastAdd.outcome = "ValueError"
    /\ lastAdd.deps \ Members # {}
    /\ lastAdd.deps \cap Members # {}
    /\ Len(drivers) >= 2
    /\ DOMAIN fdeps # {}

\* C6: in initialize_many with dependencies, sequential or concurrent, no
\* driver of a later level is started before every driver of every earlier
\* level has finished its initialize (returned or raised), and the call does
\* not return before every started driver has finished.
C6_LevelsAreBarriers ==
    (call.op = "initialize" /\ DOMAIN fdeps # {}) =>
        /\ \A i, j \in 1..Len(groups) : i < j =>
              \A y \in groups[i] : \A x \in groups[j] :
                 Started(x) => fin[y] # "none"
        /\ result = Returned =>
              \A x \in Members : invoked[x] = 1 /\ fin[x] # "none"

\* C6 witness: a concurrent initialize whose first level holds two drivers,
\* one of which raised, has started a driver of the second level.
C6_Witness ==
    /\ call.op = "initialize"
    /\ call.concurrent
    /\ Len(groups) >= 2
    /\ Cardinality(groups[1]) = 2
    /\ \E y \in groups[1] : fin[y] = "err"
    /\ \E x \in groups[2] : fut[x] = "pending"

\* C7: finalize_many goes through the levels of initialize_many in reverse
\* order: a driver is finalized (its finalize has returned or raised) before
\* any driver it depends on is started, and a call that returns with no
\* failure has finalized every driver.
C7_FinalizeReversesLevels ==
    call.op = "finalize" =>
        /\ (DOMAIN fdeps # {} /\ groups # <<>>) => groups = Reverse(r)
        /\ \A x \in Members : \A y \in FlockDeps(x) :
              Started(y) => fin[x] # "none"
        /\ (result = Returned /\ Failed = {}) =>
              \A x \in Members : fin[x] = "ok"

\* C7 witness: a finalize of a chain of three drivers has returned with no
\* failure.
C7_Witness ==
    /\ call.op = "finalize"
    /\ result = Returned
    /\ Failed = {}
    /\ \E x, y, z \in Members : y \in FlockDeps(x) /\ z \in FlockDeps(y)
    /\ \A x \in Members : fin[x] = "ok"

\* C8: with an on_exception hook, a failure is contained: the error never
\* leaves the call, and once the call and its workers are through, every
\* driver was invoked once, every driver that succeeded got its after hook
\* (when one is supplied) and no on_exception, and every driver that raised
\* got exactly one on_exception, with itself and its error, and no after hook.
C8_FailureIsContained ==
    call.on_exception =>
        /\ result \in {NoResult, Returned}
        /\ Quiescent =>
              \A x \in Members :
                 /\ invoked[x] = 1
                 /\ fin[x] = "ok" =>
                       /\ after[x] = (IF call.on_after THEN 1 ELSE 0)
                       /\ excCalls[x] = <<>>
                 /\ fin[x] = "err" =>
                       /\ excCalls[x] = <<Err(x)>>
                       /\ after[x] = 0
                 /\ fin[x] # "none"

\* C8 witness: three drivers in one level, the second raised, the first and
\* the third were initialized and got their after hook.
C8_Witness ==
    /\ Quiescent
    /\ call.op = "initialize"
    /\ call.on_exception
    /\ call.on_after
    /\ Len(drivers) = 3
    /\ Len(groups) = 1
    /\ Failed = {drivers[2]}
    /\ excCalls[drivers[2]] = <<Err(drivers[2])>>
    /\ after[drivers[1]] = 1
    /\ after[drivers[3]] = 1

\* C9: in sequential mode with no on_exception hook, once a driver raised the
\* only thing that happens is that its error leaves the call: no hook fires,
\* no driver is invoked and no finalizer is registered any more.
C9_SequentialFailureAborts ==
    [][(call.op # "none" /\ ~call.concurrent /\ ~call.on_exception
            /\ Failed # {}) =>
          /\ \A x \in Failed : result' = Err(x)
          /\ pc' = "finished"
          /\ UNCHANGED <<before, invoked, fin, after, excCalls, atexit>>]_vars

\* C9 witness: a sequential call without on_exception has raised the error of
\* a driver while another driver of its level and a later level were left
\* untouched.
C9_Witness ==
    /\ ~call.concurrent
    /\ ~call.on_exception
    /\ pc = "finished"
    /\ gi >= 1
    /\ gi < Len(groups)
    /\ \E x \in Members :
          /\ result = Err(x)
          /\ x \in groups[gi]
          /\ \E y \in groups[gi] : y # x /\ ~Started(y)
    /\ \A y \in groups[gi + 1] : ~Started(y)

\* C10: in concurrent mode with no on_exception hook, a failure aborts the
\* remaining levels: no driver of a later level is started after a driver
\* raised, and the call ends with the error of a driver that raised.
C10_ConcurrentFailureAborts ==
    (call.concurrent /\ ~call.on_exception) =>
        /\ \A i, j \in 1..Len(groups) : i < j =>
              \A y \in groups[i] : \A x \in groups[j] :
                 fin[y] = "err" => ~Started(x)
        /\ (pc = "finished" /\ Failed # {}) =>
              \E y \in Failed : result = Err(y)

\* C11: in a call, every driver goes through pending -> starting -> (ready |
\* failed) at most once and in order: its before hook fires at most once and
\* before its initialize/finalize is invoked, which happens at most once;
\* the after hook fires only after a success and on_exception only after a
\* failure, with the driver and its error, and never both.  When the call is
\* not aborted (it returned, and a hook handled every failure) and its
\* workers are through, every driver went through all of it exactly once.
C11_DeviceLifecycleOnce ==
    /\ \A x \in DriverPool :
          /\ before[x] <= 1
          /\ invoked[x] <= 1
          /\ after[x] + Len(excCalls[x]) <= 1
          /\ before[x] = 1 => call.on_before
          /\ (invoked[x] = 1 \/ fut[x] # "none") =>
                before[x] = (IF call.on_before THEN 1 ELSE 0)
          /\ fin[x] # "none" <=> invoked[x] = 1
          /\ after[x] = 1 => (fin[x] = "ok" /\ call.on_after)
          /\ excCalls[x] # <<>> =>
                (fin[x] = "err" /\ call.on_exception
                    /\ excCalls[x] = <<Err(x)>>)
    /\ (Quiescent /\ result = Returned
            /\ (call.on_exception \/ Failed = {})) =>
          \A x \in Members :
             /\ before[x] = (IF call.on_before THEN 1 ELSE 0)
             /\ invoked[x] = 1
             /\ fin[x] = "ok" => after[x] = (IF call.on_after THEN 1 ELSE 0)
             /\ fin[x] = "err" => excCalls[x] = <<Err(x)>>

\* C11 witness: a concurrent call with all hooks over two levels has returned,
\* one driver raised and another succeeded, and each went through its hooks.
C11_Witness ==
    /\ Quiescent
    /\ result = Returned
    /\ call.concurrent
    /\ call.on_before /\ call.on_after /\ call.on_exception
    /\ Len(groups) >= 2
    /\ \E x, y \in Members :
          /\ fin[x] = "err" /\ excCalls[x] = <<Err(x)>> /\ after[x] = 0
          /\ fin[y] = "ok" /\ after[y] = 1 /\ excCalls[y] = <<>>
          /\ before[x] = 1 /\ before[y] = 1

\* C12: with register_finalizer, initialize_many registers the deferred
\* finalize exactly for the drivers whose initialize succeeded: never for a
\* driver whose initialize raised, and once for every driver that succeeded
\* by the time the call has returned and its workers are through.
C12_FinalizerOnlyOnSuccess ==
    (call.op = "initialize" /\ call.register_finalizer) =>
        /\ \A x \in DriverPool : atexit[x] > 0 => fin[x] = "ok"
        /\ (Quiescent /\ result = Returned) =>
              \A x \in Members : fin[x] = "ok" => atexit[x] = 1


(***************************************************************************)
(* The resolver on every input map over Names (cyclic ones included) and   *)
(* every member set over MemberNames.                                      *)
(***************************************************************************)
DepSets == {s \in SUBSET Names : Cardinality(s) <= MaxDeps}

InputMaps == UNION {[ks -> DepSets] : ks \in SUBSET Names}

InitSolve ==
    /\ dependencies \in InputMaps
    /\ all_members \in SUBSET MemberNames
    /\ d = EmptyMap
    /\ r = <<>>
    /\ pc = "enter"
    /\ NoFlock
    /\ NoInstances
    /\ NoPipes
    /\ NoDicts

NextSolve == SolveEnter \/ SolveStep \/ SolveReturn

SpecSolve == InitSolve /\ [][NextSolve]_vars


(***************************************************************************)
(* What the claims about the resolver speak of.                            *)
(***************************************************************************)
\* Every name of the input: the members, the keys and the names in the
\* dependency sets.
AllNames ==
    all_members \cup (DOMAIN dependencies)
        \cup UNION {dependencies[k] : k \in DOMAIN dependencies}

DepsOf(n) == IF n \in DOMAIN dependencies THEN dependencies[n] ELSE {}

RECURSIVE Closure(_, _)
Closure(S, n) ==
    IF n = 0 THEN S ELSE Closure(S \cup UNION {DepsOf(x) : x \in S}, n - 1)

\* The names x depends on, directly or not.
Reach(x) == Closure(DepsOf(x), Cardinality(Names))

Acyclic == \A x \in AllNames : x \notin Reach(x)

SetMax(S) == CHOOSE m \in S : \A x \in S : x <= m

\* The length of the longest dependency chain below n (acyclic inputs only).
RECURSIVE Chain(_)
Chain(n) ==
    IF DepsOf(n) = {} THEN 0 ELSE 1 + SetMax({Chain(y) : y \in DepsOf(n)})

Emitted(k) == UNION {r[i] : i \in 1..k}

\* The example of the specification: {A: {}, B: {A}, C: {A}, D: {B, C}}.
ExampleMap ==
    [k \in {"A", "B", "C", "D"} |->
        CASE k = "A" -> {}
          [] k = "B" -> {"A"}
          [] k = "C" -> {"A"}
          [] k = "D" -> {"B", "C"}]

\* C1: on an acyclic input the returned levels respect the dependencies:
\* when x depends on y, y is in a level and x is in a level, and every level
\* holding y comes strictly before every level holding x; and level 0 holds
\* every name that has no dependency.
C1_LevelsRespectDependencies ==
    (pc = "done" /\ Acyclic) =>
        /\ \A x \in AllNames : \A y \in DepsOf(x) :
              /\ \E i \in 1..Len(r) : y \in r[i]
              /\ \E j \in 1..Len(r) : x \in r[j]
              /\ \A i, j \in 1..Len(r) : (y \in r[i] /\ x \in r[j]) => i < j
        /\ \A n \in AllNames : DepsOf(n) = {} => (Len(r) >= 1 /\ n \in r[1])

\* C1 witness: a finished call on an acyclic input with a chain of two
\* dependencies and a name without dependency.
C1_Witness ==
    /\ pc = "done"
    /\ Acyclic
    /\ Len(r) >= 3
    /\ \E x \in AllNames : \E y \in DepsOf(x) : DepsOf(y) # {}

\* C2: on an acyclic input the levels are pairwise disjoint and their union
\* is exactly the members plus every name of the map.
C2_LevelsPartitionAllNames ==
    (pc = "done" /\ Acyclic) =>
        /\ \A i, j \in 1..Len(r) : i # j => r[i] \cap r[j] = {}
        /\ Emitted(Len(r)) = AllNames

\* C2 witness: a finished call whose member set holds a name that is neither
\* a key nor in a dependency set, next to a non-empty map.
C2_Witness ==
    /\ pc = "done"
    /\ Acyclic
    /\ \E k \in DOMAIN dependencies : dependencies[k] # {}
    /\ \E m \in all_members :
          /\ m \notin DOMAIN dependencies
          /\ m \notin UNION {dependencies[k] : k \in DOMAIN dependencies}
          /\ m \in Emitted(Len(r))

\* C3: each name is in the earliest possible level: level k (k >= 1) is
\* exactly the set of names not emitted before whose dependencies all lie in
\* the levels before it, a name's level index is the length of its longest
\* dependency chain, and the example map yields [{A}, {B, C}, {D}].
C3_EarliestLevel ==
    (pc = "done" /\ Acyclic) =>
        /\ \A k \in 2..Len(r) :
              r[k] = {n \in AllNames \ Emitted(k - 1) :
                         DepsOf(n) \subseteq Emitted(k - 1)}
        /\ \A n \in AllNames :
              Chain(n) + 1 <= Len(r) /\ n \in r[Chain(n) + 1]
        /\ (dependencies = ExampleMap) =>
              r = <<{"A"}, {"B", "C"}, {"D"}>>

\* C3 witness: the call on the example map has returned.
C3_Witness ==
    /\ pc = "done"
    /\ dependencies = ExampleMap
    /\ all_members = {}
    /\ Len(r) = 3

\* C4: the resolver never loops without progress: an iteration on a
\* non-empty graph either changes the graph or raises a failure, so that a
\* cyclic input ends in a detectable failure.
C4_CycleIsDetected ==
    [][(pc = "solve" /\ DOMAIN d # {}) => (d' # d \/ pc' = "failed")]_vars

(***************************************************************************)
(* Gets, sets and calls of two threads on two instances of a device class, *)
(* for every attribute configuration.                                      *)
(***************************************************************************)
InitFeat ==
    /\ dependencies = EmptyMap
    /\ all_members = {}
    /\ d = EmptyMap
    /\ r = <<>>
    /\ pc = "feat"
    /\ NoFlock
    /\ feat \in FeatConfigs
    /\ NoFeat
    /\ NoPipes
    /\ NoDicts

NextFeat ==
    \/ \E t \in Threads : \E i \in Instances : Get(t, i)
    \/ \E t \in Writers : \E i \in Instances : \E v \in UserValues :
          Set(t, i, v)
    \/ \E t \in Writers : \E i \in Instances : \E v \in CallValues :
          Call(t, i, v)
    \/ \E t \in Threads : Leave(t)
    \/ \E i \in Drifting : \E raw \in RawValues : Drift(i, raw)

SpecFeat == InitFeat /\ [][NextFeat]_vars

(***************************************************************************)
(* What the claims about attributes and operations speak of.               *)
(***************************************************************************)
\* The operation c logged, counted, called or notified e.
Has(c, e) == \E k \in DOMAIN c.trace : c.trace[k] = e

\* This step ends an operation (which is done in the next state).
LeaveStep == \E t \in Threads : th[t].pc # "idle" /\ th'[t].pc = "idle"

\* Thread t is in an operation on instance i.
Running(t, i) == th[t].pc # "idle" /\ th[t].inst = i

\* C13: a set whose value equals the cached value of the instance does not
\* invoke the setter (nor the simulator), leaves the cache slot as it was,
\* counts nothing in the statistics, notifies no change and logs nothing but
\* 'No need to set'; a set with another value, which the pipeline accepts, of
\* an attribute that has a setter does invoke the setter or the simulator.
C13_UnnecessarySetSuppressed ==
    done.op = "set" =>
        /\ done.arg = done.c.old =>
              /\ done.c.st = "return"
              /\ done.c.trace = <<"No need to set">>
              /\ ~done.c.stored
              /\ cache[done.inst] = done.c.old
        /\ (done.arg # done.c.old /\ PreSet(done.arg).ok /\ feat.fset) =>
              (Has(done.c, "fset") \/ Has(done.c, "sim.set"))

\* C13 witness: a set of the cached value has ended while the instrument holds
\* another value, and the instrument was left alone.
C13_Witness ==
    /\ done.op = "set"
    /\ done.arg = done.c.old
    /\ done.c.trace = <<"No need to set">>
    /\ done.inst \in Drifting
    /\ device[done.inst] # Values[done.arg]
    /\ feat.fset /\ ~feat.simulator

\* C14: for a read-once attribute, once the cache slot of an instance holds a
\* value the slot never goes back to UNSET, and every get that finds a value
\* in the slot returns it without invoking the getter or the simulator (and
\* without logging or counting anything); so a get that did invoke the
\* getter and succeeded found the slot UNSET and left a value in it: it is
\* the only one.
C14_ReadOnceReadsOnce ==
    [][feat.read_once =>
          /\ \A i \in Instances : cache[i] # UNSET => cache'[i] # UNSET
          /\ (LeaveStep /\ done'.op = "get") =>
                /\ done'.c.old # UNSET =>
                      /\ done'.c.st = "return"
                      /\ done'.c.val = done'.c.old
                      /\ done'.c.trace = <<>>
                      /\ cache'[done'.inst] = done'.c.old
                /\ (done'.c.st = "return" /\ done'.c.old = UNSET) =>
                      /\ Has(done'.c, "fget") \/ Has(done'.c, "sim.get")
                      /\ cache'[done'.inst] = done'.c.val
                      /\ cache'[done'.inst] # UNSET]_vars

\* C14 witness: a get of a read-once attribute has returned the cached value
\* while the instrument holds another one.
C14_Witness ==
    /\ feat.read_once
    /\ feat.fget
    /\ done.op = "get"
    /\ done.c.old # UNSET
    /\ done.c.val = done.c.old
    /\ done.c.trace = <<>>
    /\ device[done.inst] # Values[done.c.val]

\* C15: a get or set that fails, in a pipeline or in the accessor (or the
\* simulator, or for want of an accessor), leaves every cache slot as it
\* was, notifies no change and ends with the error, which the caller
\* receives.
C15_FailureLeavesCache ==
    [][(LeaveStep /\ done'.op \in {"get", "set"} /\ done'.c.st = "raise") =>
          /\ cache' = cache
          /\ cache'[done'.inst] = done'.c.old
          /\ ~done'.c.stored
          /\ ~Has(done'.c, "changed")
          /\ done'.c.err \in {"ValueError", "DeviceError", "AttributeError"}]_vars

\* C15 witness: a get failed in the get pipeline (the getter gave a value
\* the mapping does not know) while the slot held a value, which it still
\* holds.
C15_Witness ==
    /\ done.op = "get"
    /\ done.c.st = "raise"
    /\ done.c.err = "ValueError"
    /\ Has(done.c, "fget")
    /\ done.c.old # UNSET
    /\ cache[done.inst] = done.c.old

\* C16: every cache slot starts UNSET and changes only when a get or set on
\* its instance succeeds; after a successful set the slot holds the value
\* the caller passed (before the set pipeline), after a successful get the
\* value the caller received (after the get pipeline). A get of an
\* attribute that is not read-once and has no simulator always invokes the
\* getter and returns what the instrument holds now, whatever the slot held.
C16_CacheIsLastUserValue ==
    /\ \A i \in Instances : cache[i] = UNSET
    /\ [][/\ \A i \in Instances :
                cache'[i] # cache[i] =>
                    /\ LeaveStep
                    /\ done'.inst = i
                    /\ done'.op \in {"get", "set"}
                    /\ done'.c.st = "return"
          /\ (LeaveStep /\ done'.c.st = "return") =>
                /\ done'.op = "set" => cache'[done'.inst] = done'.arg
                /\ done'.op = "get" => cache'[done'.inst] = done'.c.val
          /\ (LeaveStep /\ done'.op = "get" /\ ~feat.read_once
                /\ ~feat.simulator /\ feat.fget) =>
                /\ Has(done'.c, "fget")
                /\ done'.c.st = "return" =>
                      /\ PostGet(device[done'.inst]).ok
                      /\ done'.c.val = PostGet(device[done'.inst]).v]_vars

\* C16 witness: the instrument changed behind the cache and the next get
\* returned, and cached, the new value.
C16_Witness ==
    /\ ~feat.read_once
    /\ done.op = "get"
    /\ done.c.st = "return"
    /\ done.c.old # UNSET
    /\ done.c.val # done.c.old
    /\ cache[done.inst] = done.c.val
    /\ device[done.inst] = Values[done.c.val]

\* C17: the cache slots belong to the instances: an operation on one
\* instance changes no slot of another instance, so the slot of an instance
\* nobody used stays UNSET whatever is done to the other one.
C17_CachePerInstance ==
    [][LeaveStep =>
          \A j \in Instances : j # done'.inst => cache'[j] = cache[j]]_vars

\* C17 witness: a set on one instance has filled its slot, the slot of the
\* other instance is still UNSET.
C17_Witness ==
    /\ done.op = "set"
    /\ done.c.stored
    /\ cache[done.inst] = done.arg
    /\ \E j \in Instances : j # done.inst /\ cache[j] = UNSET

\* C18: no two threads are inside a get, set or call on the same instance
\* at the same time; and an operation never waits for another instance: the
\* lock an operation on an instance needs is free whenever no thread is
\* running on that instance, whatever runs on the other instances.
C18_MutualExclusionPerInstance ==
    /\ \A t1, t2 \in Threads :
          (t1 # t2 /\ th[t1].pc # "idle" /\ th[t2].pc # "idle") =>
              th[t1].inst # th[t2].inst
    /\ \A t \in Threads : \A i \in Instances :
          (pc = "feat" /\ th[t].pc = "idle"
             /\ \A u \in Threads : ~Running(u, i)) =>
              \A op \in {"get", "set", "call"} :
                  Locks(op) => lock[i] = "free"

\* C18 witness: two threads are inside operations at the same time, one in
\* the setter of one instance, the other in the getter of the other one.
C18_Witness ==
    /\ th["user"].pc = "in"
    /\ th["user"].op = "set"
    /\ th["poller"].pc = "in"
    /\ th["poller"].op = "get"
    /\ th["user"].inst # th["poller"].inst

\* C19: the lock of an instance is held exactly while a thread is inside an
\* operation on it, and every end of an operation, be it a return, an
\* error, a suppressed set or the early return of a read-once get, hands the
\* lock back, so that a later operation on the instance can take it.
C19_LockAlwaysReleased ==
    /\ [](\A i \in Instances : \A t \in Threads :
             lock[i] = t <=> Running(t, i))
    /\ [][LeaveStep =>
             /\ lock[done'.inst] # "free"
             /\ th[lock[done'.inst]].pc # "idle"
             /\ th'[lock[done'.inst]].pc = "idle"
             /\ lock'[done'.inst] = "free"]_vars

\* C19 witness: an operation on an instance ended with an error and another
\* thread has taken the lock of that instance since.
C19_Witness ==
    /\ done.c.st = "raise"
    /\ \E t \in Threads :
          /\ Running(t, done.inst)
          /\ lock[done.inst] = t
          /\ t # "user"
    /\ done.op = "set"

\* C20: with a simulator attached, a get (set) of an attribute that defines
\* a getter (setter) is answered by the simulator and the getter (setter)
\* is never called, while the rest of the stack works as always: the lock
\* is held during the simulator's call, the operation is logged and
\* counted, the pipelines are applied and a success is cached. Without
\* getter (setter) the simulator does not intercept the get (set), which
\* fails for want of an accessor; without simulator it is never asked.
C20_SimulatorIntercepts ==
    /\ \A t \in Threads :
          (th[t].pc = "in" /\ th[t].op \in {"get", "set"}) =>
              /\ th[t].c.callee = SimName(th[t].op) <=> feat.simulator
              /\ lock[th[t].inst] = t
    /\ done.op \in {"get", "set"} =>
          /\ Has(done.c, SimName(done.op)) =>
                /\ feat.simulator
                /\ HasAccessor(done.op)
                /\ ~Has(done.c, AccessorName(done.op))
                /\ Has(done.c, LogStart(done.op))
                /\ Has(done.c, StatKey(done.op, TRUE))
                      \/ Has(done.c, StatKey(done.op, FALSE))
                /\ done.c.st = "return" =>
                      /\ Has(done.c, LogDone(done.op))
                      /\ Has(done.c, StatKey(done.op, TRUE))
                      /\ done.c.stored
                      /\ done.op = "get" =>
                            (done.c.val \in DOMAIN Values
                               /\ cache[done.inst] = done.c.val)
                      /\ done.op = "set" =>
                            (done.c.val = Values[done.arg]
                               /\ cache[done.inst] = done.arg)
          /\ (feat.simulator /\ HasAccessor(done.op)) =>
                ~Has(done.c, AccessorName(done.op))
          /\ (Has(done.c, LogStart(done.op)) /\ ~HasAccessor(done.op)) =>
                /\ ~Has(done.c, SimName(done.op))
                /\ done.c.st = "raise"
                /\ done.c.err = "AttributeError"

\* C20 witness: a get of an attribute with getter and simulator returned the
\* simulator's value, 12 read as 2 by the get pipeline, while the instrument
\* holds another value; the getter was not called and the value is cached.
C20_Witness ==
    /\ feat.simulator
    /\ feat.fget
    /\ done.op = "get"
    /\ done.c.st = "return"
    /\ Has(done.c, "sim.get")
    /\ ~Has(done.c, "fget")
    /\ done.c.val = 2
    /\ device[done.inst] # Values[2]
    /\ cache[done.inst] = 2

(***************************************************************************)
(* The pipelines of one declaration, for every choice of modifiers.        *)
(***************************************************************************)
InitPipe ==
    /\ dependencies = EmptyMap
    /\ all_members = {}
    /\ d = EmptyMap
    /\ r = <<>>
    /\ pc = "pipe"
    /\ NoFlock
    /\ NoInstances
    /\ modifiers \in ModifierSpecs
    /\ procs = NoProcs
    /\ applied = NotApplied
    /\ NoDicts

NextPipe ==
    \/ FeatRebuild
    \/ ActionBuild
    \/ \E x \in UserInputs : PreSetCall(x)
    \/ \E x \in RawInputs : PostGetCall(x)
    \/ \E x \in UserInputs : ParamCall(x)
    \/ \E x \in RawInputs : RetCall(x)

SpecPipe == InitPipe /\ [][NextPipe]_vars

\* The place of a step in the order the set pipeline is declared to have.
SetRank(func) ==
    CASE func = "to_magnitude" -> 1
      [] func = "mapper" -> 2
      [] func = "range_checker" -> 3
      [] OTHER -> 4

\* The steps of pipeline p, as a set.
StepsOf(p) == {p[k] : k \in DOMAIN p}

\* Sequence s is the beginning of sequence p.
IsPrefix(s, p) == Len(s) <= Len(p) /\ \A k \in DOMAIN s : s[k] = p[k]

\* C21: the set pipeline Feat.rebuild builds holds the unit-to-magnitude
\* converter iff units is set, the value mapper iff values is set, the
\* range checker iff limits is set, and after them the set_funcs that are
\* not None, in the order of their declaration; nothing of the get side is
\* in it; the steps are applied to the value of the caller in exactly this
\* order, up to the first one that raises.
C21_SetPipelineOrder ==
    procs.kind = "feat" =>
        /\ ("to_magnitude" \in StepsOf(procs.pre_set)) <=> modifiers.units
        /\ ("mapper" \in StepsOf(procs.pre_set)) <=> modifiers.values
        /\ ("range_checker" \in StepsOf(procs.pre_set)) <=> modifiers.limits
        /\ StepsOf(procs.pre_set) \cap {"to_quantity", "reverse_mapper"} = {}
        /\ \A i, j \in DOMAIN procs.pre_set :
              i < j => /\ SetRank(procs.pre_set[i]) <= SetRank(procs.pre_set[j])
                       /\ procs.pre_set[i] # procs.pre_set[j]
        /\ SelectSeq(procs.pre_set, LAMBDA f : f \in CustomFuncs)
              = NotNone(modifiers.set_funcs)
        /\ applied.which = "pre_set" =>
              /\ IsPrefix(applied.steps, procs.pre_set)
              /\ applied.ok => applied.steps = procs.pre_set
              /\ (applied.input = Q(1, "s") /\ modifiers.units
                    /\ modifiers.values) =>
                    (~applied.ok /\ applied.steps = <<"to_magnitude", "mapper">>)

\* C21 witness: with all modifiers and two set_funcs the value 1 ms went
\* through the five steps: magnitude 1, mapped to 11, in range, doubled to
\* 22, plus one.
C21_Witness ==
    /\ procs.kind = "feat"
    /\ modifiers.units /\ modifiers.values /\ modifiers.limits
    /\ modifiers.set_funcs = <<"f2", "f1">>
    /\ applied.which = "pre_set"
    /\ applied.input = Q(1, "ms")
    /\ applied.ok
    /\ applied.steps =
          <<"to_magnitude", "mapper", "range_checker", "f2", "f1">>
    /\ applied.v = Q(23, "")

\* The place of a step in the order the get pipeline is declared to run in.
GetRank(func) ==
    CASE func = "reverse_mapper" -> 2
      [] func = "to_quantity" -> 3
      [] OTHER -> 1

\* C22: the get pipeline Feat.rebuild builds runs the get_funcs that are
\* not None in the reverse of the order of their declaration, then the
\* reverse value mapper iff values is set, then the unit-to-quantity
\* converter iff units is set; it never holds the range checker, whatever
\* limits is, nor a step of the set side; the steps are applied to the raw
\* reading in exactly this order, up to the first one that raises.
C22_GetPipelineOrder ==
    procs.kind = "feat" =>
        /\ ("to_quantity" \in StepsOf(procs.post_get)) <=> modifiers.units
        /\ ("reverse_mapper" \in StepsOf(procs.post_get)) <=> modifiers.values
        /\ StepsOf(procs.post_get)
              \cap {"range_checker", "to_magnitude", "mapper"} = {}
        /\ \A i, j \in DOMAIN procs.post_get :
              i < j =>
                 /\ GetRank(procs.post_get[i]) <= GetRank(procs.post_get[j])
                 /\ procs.post_get[i] # procs.post_get[j]
        /\ \A i, j \in DOMAIN modifiers.get_funcs :
              (i < j /\ modifiers.get_funcs[i] # "None"
                     /\ modifiers.get_funcs[j] # "None") =>
                  \E a, b \in DOMAIN procs.post_get :
                      /\ b < a
                      /\ procs.post_get[a] = modifiers.get_funcs[i]
                      /\ procs.post_get[b] = modifiers.get_funcs[j]
        /\ StepsOf(procs.post_get) \cap CustomFuncs
              = StepsOf(modifiers.get_funcs) \ {"None"}
        /\ applied.which = "post_get" =>
              /\ IsPrefix(applied.steps, procs.post_get)
              /\ applied.ok => applied.steps = procs.post_get

\* C22 witness: with units, values, limits and get_funcs declared as f1, f2
\* the raw reading 5 was doubled by f2, got one added by f1, was mapped back
\* from 11 to 1 and made the quantity 1 ms.
C22_Witness ==
    /\ procs.kind = "feat"
    /\ modifiers.units /\ modifiers.values /\ modifiers.limits
    /\ modifiers.get_funcs = <<"f1", "f2">>
    /\ applied.which = "post_get"
    /\ applied.input = Q(5, "")
    /\ applied.ok
    /\ applied.steps = <<"f2", "f1", "reverse_mapper", "to_quantity">>
    /\ applied.v = Q(1, Units)

\* C28: the pipeline Action builds for a parameter has its steps in the
\* order of the set pipeline of an attribute with the same modifiers: the
\* unit-to-magnitude converter, then the value mapper, then the range
\* checker, then the custom funcs in the order of their declaration.
C28_ParamPipelineAsSetPipeline ==
    procs.kind = "action" =>
        /\ procs.param = Rebuild(modifiers).pre_set
        /\ \A i, j \in DOMAIN procs.param :
              i < j => SetRank(procs.param[i]) <= SetRank(procs.param[j])

\* C29: the return pipeline of an Action is the get pipeline of an
\* attribute with the same modifiers: the raw result goes through the
\* custom funcs in the reverse of the order of their declaration, then
\* through the reverse value mapper, then through the unit-to-quantity
\* converter, so that a result that passed a pipeline with units is a
\* quantity in these units.
C29_RetPipelineAsGetPipeline ==
    procs.kind = "action" =>
        /\ procs.ret = Rebuild(modifiers).post_get
        /\ \A i, j \in DOMAIN procs.ret :
              i < j => GetRank(procs.ret[i]) <= GetRank(procs.ret[j])
        /\ (applied.which = "ret" /\ applied.ok /\ modifiers.units) =>
              applied.v.u = Units

(***************************************************************************)
(* A keyed attribute with restricted keys, on one instance.                *)
(***************************************************************************)
InitKeys ==
    /\ dependencies = EmptyMap
    /\ all_members = {}
    /\ d = EmptyMap
    /\ r = <<>>
    /\ pc = "keys"
    /\ NoFlock
    /\ NoInstances
    /\ NoPipes
    /\ keys \in KeyRestrictions
    /\ kdev = [k \in {"answer"} |-> 11]
    /\ kcache = [k \in AskedKeys |-> UNSET]
    /\ klast = NoKeyedOp
    /\ dconf = <<>>
    /\ subs = <<>>
    /\ slast = <<>>

NextKeys ==
    \/ \E key \in AskedKeys : KeyedGet(key)
    \/ \E key \in AskedKeys : \E v \in UserValues : KeyedSet(key, v)
    \/ \E raw \in RawValues : KeyedDrift("answer", raw)

SpecKeys == InitKeys /\ [][NextKeys]_vars

Overriders == {"x"}

InitStore ==
    /\ dependencies = EmptyMap
    /\ all_members = {}
    /\ d = EmptyMap
    /\ r = <<>>
    /\ pc = "store"
    /\ NoFlock
    /\ NoInstances
    /\ NoPipes
    /\ keys = <<>>
    /\ kdev = <<>>
    /\ kcache = <<>>
    /\ klast = <<>>
    /\ dconf = [units |-> NewStore(Units)]
    /\ subs = [k \in DictKeys |-> NoSub]
    /\ slast = NoAccess

NextStore ==
    \/ \E i \in Instances : \E k \in DictKeys : Materialize(i, k)
    \/ \E v \in UnitChoices : DictClassSet(v)
    \/ \E i \in Overriders : \E item \in Items : \E v \in UnitChoices :
          DictProxySetattr(i, item, v)
    \/ \E i \in Overriders : \E k \in DictKeys : \E item \in Items :
          \E v \in UnitChoices : FeatProxySetattr(i, k, item, v)
    \/ \E i \in Instances : \E k \in DictKeys : \E item \in Items :
          FeatProxyGetattr(i, k, item)

SpecStore == InitStore /\ [][NextStore]_vars

\* C26: reading a modifier through the proxy of an instance gives the
\* override of that instance when it has one and the class default else;
\* writing a name that is no modifier ('color') through a proxy raises
\* AttributeError and leaves every store and every pipeline as it was (the
\* sub-attribute the proxy was taken from may have been materialized, with
\* the modifiers of the keyed attribute).
C26_ProxyReadsAndRejects ==
    [][(slast' # slast) =>
          /\ (slast'.op = "getattr" /\ slast'.item = "units") =>
                /\ slast'.err = ""
                /\ subs'[slast'.key].made
                /\ slast'.val =
                      IF subs'[slast'.key].conf.units.over[slast'.inst]
                            # "unset"
                      THEN subs'[slast'.key].conf.units.over[slast'.inst]
                      ELSE subs'[slast'.key].conf.units.default
          /\ (slast'.op = "setattr" /\ slast'.item = "units") =>
                slast'.err = ""
          /\ (slast'.op = "setattr" /\ slast'.item = "color") =>
                /\ slast'.err = "AttributeError"
                /\ dconf' = dconf
                /\ \A k \in DictKeys :
                      \/ subs'[k] = subs[k]
                      \/ /\ ~subs[k].made
                         /\ k = slast'.key
                         /\ subs'[k] = BuildSubproperty(slast'.inst)]_vars

\* C26 witness: instance x reads the units of key 1 and gets its own
\* override 's', while the class default, which y sees, is 'ms'.
C26_Witness ==
    /\ slast.op = "getattr"
    /\ slast.inst = "x"
    /\ slast.item = "units"
    /\ slast.val = "s"
    /\ subs[slast.key].conf.units.over["x"] = "s"
    /\ subs[slast.key].conf.units.default = "ms"
    /\ EffectiveUnits("y", slast.key) = "ms"

\* C24: every materialized sub-attribute agrees with the keyed attribute:
\* for every instance that has not overridden the key individually, the
\* modifier in effect on the key, and the units its get pipeline gives, are
\* the modifier in effect on the keyed attribute for that instance, whether
\* the sub-attribute was materialized before or after the last change.
C24_SubAttributesInSync ==
    \A i \in Instances : \A k \in DictKeys :
        (subs[k].made /\ subs[k].conf.units.over[i] = "unset") =>
            /\ EffectiveUnits(i, k) = DictUnits(i)
            /\ Reading(i, k) = Q(9, DictUnits(i))

\* C25: when an instance overrides a modifier, on the keyed attribute or on
\* one of its keys, the modifiers in effect and the values read by every
\* other instance stay what they were, and an override on one key leaves
\* the other keys of the same instance as they were.
C25_OverrideIsolated ==
    [][(slast' # slast /\ slast'.op = "setattr" /\ slast'.err = ""
          /\ slast'.inst \in Instances) =>
          /\ \A j \in Instances \ {slast'.inst} :
                /\ ConfigGet(dconf'.units, j) = DictUnits(j)
                /\ \A k \in DictKeys :
                      subs[k].made =>
                         /\ ConfigGet(subs'[k].conf.units, j)
                               = EffectiveUnits(j, k)
                         /\ ConfigGet(subs'[k].post_get, j)
                               = Reading(j, k).u
          /\ slast'.on = "sub" =>
                \A k \in DictKeys \ {slast'.key} : subs'[k] = subs[k]]_vars


C30_CallFailureLoggedAndCounted ==
    (done.op = "call" /\ done.c.st = "raise") =>
        LET ran == Has(done.c, "func") \/ Has(done.c, "sim.call")
        IN  /\ Has(done.c, LogFailed("call"))
            /\ Has(done.c, StatKey("call", FALSE))
            /\ ~Has(done.c, StatKey("call", TRUE))
            /\ ~PreSet(done.arg).ok => ~ran
            /\ done.c.err = IF ran THEN "DeviceError" ELSE "ValueError"


\* C38: whatever Flock.add calls were made, successful or failed, every key
\* of the dependency map and every name of its dependency sets is a member
\* of the flock, no driver depends on itself and the graph has no cycle
\* (every non-empty set of members holds a driver none of whose
\* dependencies is in the set); so the resolver called by Flock.initialize
\* and Flock.finalize makes progress in every iteration and ends after at
\* most as many iterations as the flock has members.
C38_FlockGraphWellFormed ==
    /\ DOMAIN fdeps \subseteq Members
    /\ \A x \in DOMAIN fdeps : fdeps[x] \subseteq Members /\ x \notin fdeps[x]
    /\ \A S \in SUBSET Members :
          S # {} => \E x \in S : FlockDeps(x) \cap S = {}
    /\ (call.op # "none" /\ pc = "solve") =>
          /\ Len(r) + Cardinality(DOMAIN d) <= Cardinality(Members)
          /\ DOMAIN d # {} => ReadyNames(d) # {}

\* C38 witness: a chain of three drivers was built, and an add with a
\* dependency that is no member has just failed.
C38_Witness ==
    /\ pc = "idle"
    /\ Len(drivers) = 3
    /\ drivers[1] \in FlockDeps(drivers[2])
    /\ drivers[2] \in FlockDeps(drivers[3])
    /\ lastAdd.outcome = "ValueError"
    /\ lastAdd.deps \ Members # {}


\* The hook that is due to driver y once its call has ended: the after hook
\* after a success, on_exception after a failure, when one is supplied.
HookDue(y) ==
    \/ fin[y] = "ok" /\ call.on_after
    \/ fin[y] = "err" /\ call.on_exception

HookDone(y) == after[y] > 0 \/ excCalls[y] # <<>>

\* C39: in concurrent mode with dependencies, when the before hook of a
\* driver fires, every driver of the levels before it has ended its call and
\* had the hook that is due to it (after hook or on_exception); and when the
\* call returns, every driver had the hook that is due to it.
C39_HooksBeforeNextLevel ==
    (call.concurrent /\ DOMAIN fdeps # {}) =>
        /\ \A i, j \in 1..Len(groups) : i < j =>
              \A y \in groups[i] : \A x \in groups[j] :
                 before[x] > 0 =>
                    /\ fin[y] # "none"
                    /\ HookDue(y) => HookDone(y)
        /\ result = Returned =>
              \A y \in Members : HookDue(y) => HookDone(y)


\* C40: an initialize with an on_exception hook goes through every level
\* whatever fails: the call ends only by returning after the last level, and
\* then every driver, the ones of the levels after a failed driver and the
\* ones that depend on it included, had its before hook fired (when one is
\* supplied) and its initialize invoked, which returned or raised.
C40_FailureDoesNotStopLaterLevels ==
    (call.op = "initialize" /\ call.on_exception) =>
        /\ pc = "finished" =>
              /\ result = Returned
              /\ gi = Len(groups)
              /\ \A x \in Members :
                    /\ before[x] = (IF call.on_before THEN 1 ELSE 0)
                    /\ invoked[x] = 1
        /\ \A x \in Members : \A y \in FlockDeps(x) :
              (fin[y] = "err" /\ pc = "finished") =>
                  (invoked[x] = 1 /\ fin[x] # "none")

\* C40 witness: the first driver of a chain of three raised, on_exception
\* was called with it, and the two drivers that depend on it had their
\* before hook and their initialize all the same.
C40_Witness ==
    /\ call.op = "initialize"
    /\ call.on_exception
    /\ call.on_before
    /\ pc = "finished"
    /\ Len(groups) = 3
    /\ \E y \in groups[1] :
          /\ fin[y] = "err"
          /\ excCalls[y] = <<Err(y)>>
          /\ \E x \in groups[2] :
                /\ y \in FlockDeps(x)
                /\ before[x] = 1
                /\ invoked[x] = 1
    /\ \A z \in groups[3] : before[z] = 1 /\ invoked[z] = 1


(***************************************************************************)
(* The standard converters of processors.py on their own: mapper and       *)
(* reverse mapper, range checker, converters built from several specs, and *)
(* Processor on tuples.                                                    *)
(***************************************************************************)
\* What a converter gives: the value it returns or the error it raises.
Gives(x) == [ok |-> TRUE, err |-> "", v |-> x]

Raise(e, x) == [ok |-> FALSE, err |-> e, v |-> x]

\* A dict literal is the sequence of its (key, value) items, in insertion
\* order, with distinct keys.
DictItems ==
    {it \in UNION {[1..n -> {1, 2, 3} \X {11, 12}] : n \in 1..2} :
        \A i, j \in DOMAIN it : i # j => it[i][1] # it[j][1]}

ItemKeys(it) == {it[i][1] : i \in DOMAIN it}

ItemValues(it) == {it[i][2] : i \in DOMAIN it}

\* processors.mapper(container)._inner(key): container[key], ValueError
\* when key is not in the container.
MapperInner(it, key) ==
    IF key \notin ItemKeys(it)
    THEN Raise("ValueError", key)
    ELSE Gives(it[CHOOSE i \in DOMAIN it : it[i][1] = key][2])

\* reverse_mapper_or_checker(container)(value): the mapper of {value: key
\* for key, value in container.items()}, in which a value met again takes
\* the later key.
ReverseMapperInner(it, rv) ==
    IF rv \notin ItemValues(it)
    THEN Raise("ValueError", rv)
    ELSE Gives(it[CHOOSE j \in DOMAIN it :
                     /\ it[j][2] = rv
                     /\ \A l \in DOMAIN it : it[l][2] = rv => l <= j][1])

\* Python's round(n / dnm) for n >= 0 and dnm > 0: the nearest integer, the
\* even one of the two when n / dnm lies half way.
Round(n, dnm) ==
    LET q == n \div dnm
        rem == n % dnm
    IN  IF 2 * rem < dnm THEN q
        ELSE IF 2 * rem > dnm THEN q + 1
        ELSE IF q % 2 = 0 THEN q ELSE q + 1

\* MyRange(*args): (stop), (start, stop) or (start, stop, step); the step
\* None is 0 here.
MyRange(args) ==
    CASE Len(args) = 1 -> <<0, args[1], 0>>
      [] Len(args) = 2 -> <<args[1], args[2], 0>>
      [] OTHER -> args

\* range_checker_coercer(low, high, step)._inner(value).
RangeCheckerCoercer(rg, value) ==
    IF ~(rg[1] <= value /\ value <= rg[2])
    THEN Raise("ValueError", value)
    ELSE IF rg[3] # 0
         THEN Gives(Round(value - rg[1], rg[3]) * rg[3] + rg[1])
         ELSE Gives(value)

\* A value a converter is applied to: a tuple of numbers or one number.
Tup(s) == [tuple |-> TRUE, items |-> s]

One(x) == [tuple |-> FALSE, items |-> <<x>>]

Min(a, b) == IF a < b THEN a ELSE b

\* tuple(f(val) for f, val in zip(fs, values)) with fs the range checkers
\* of specs: the first n elements, up to the first one that raises.
RECURSIVE ZipRanges(_, _, _, _)
ZipRanges(specs, values, n, acc) ==
    IF Len(acc) = n THEN Gives(acc)
    ELSE LET k == Len(acc) + 1
             y == RangeCheckerCoercer(MyRange(specs[k]), values[k])
         IN  IF y.ok THEN ZipRanges(specs, values, n, Append(acc, y.v))
             ELSE Raise(y.err, acc)

\* to_converter(range_checker)(specs) for a tuple of specs: _most_inner
\* zips the checkers with the values; zip ends with the shorter one and
\* raises TypeError on a value that cannot be iterated.
MostInner(specs, value) ==
    IF ~value.tuple
    THEN Raise("TypeError", <<>>)
    ELSE ZipRanges(specs, value.items,
                   Min(Len(specs), Len(value.items)), <<>>)

\* The steps of the pipelines applied here: f1 adds one, f2 doubles,
\* range_checker is range_checker(MyRange(*limits)) for the first declared
\* range, and ranges is range_checker(tuple(MyRange(*l) for l in limits)),
\* which to_converter marks accepts_tuples.
PlainSteps == {"f1", "f2", "range_checker"}

TupleAware == {"ranges"}

\* Mutant: no step is taken to accept tuples.
AcceptsTuples_Never(func) == FALSE

\* getattr(func, 'accepts_tuples', False).
AcceptsTuples(func) == func \in TupleAware

\* A step applied to one value.
Plain(func, x) ==
    CASE func = "f1" -> Gives(x + 1)
      [] func = "f2" -> Gives(x * 2)
      [] func = "range_checker" ->
             RangeCheckerCoercer(MyRange(modifiers.limits.ranges[1]), x)
      [] OTHER -> MostInner(modifiers.limits.ranges, One(x))

\* tuple(func(v) for v in values): the results so far, up to the first
\* element that raises.
RECURSIVE EachOf(_, _, _)
EachOf(func, values, acc) ==
    IF Len(acc) = Len(values) THEN Gives(acc)
    ELSE LET y == Plain(func, values[Len(acc) + 1])
         IN  IF y.ok THEN EachOf(func, values, Append(acc, y.v))
             ELSE Raise(y.err, acc)

\* The calls of step k on the elements 1..n of values, one by one.
ElementCalls(k, values, n) ==
    [i \in 1..n |-> [k |-> k, whole |-> FALSE, arg |-> <<values[i]>>]]

\* Processor._call_tuple(values) from step k on: a step that accepts
\* tuples is called with the tuple, any other with every element; calls
\* are the calls made so far, stages the tuples the steps returned.
RECURSIVE CallTuple(_, _, _, _, _)
CallTuple(funcs, k, values, calls, stages) ==
    IF k > Len(funcs)
    THEN [ok |-> TRUE, err |-> "", v |-> values, calls |-> calls,
          stages |-> stages]
    ELSE IF AcceptsTuples(funcs[k])
    THEN LET y == MostInner(modifiers.limits.ranges, Tup(values))
             c1 == Append(calls, [k |-> k, whole |-> TRUE, arg |-> values])
         IN  IF y.ok
             THEN CallTuple(funcs, k + 1, y.v, c1, Append(stages, y.v))
             ELSE [ok |-> FALSE, err |-> y.err, v |-> values, calls |-> c1,
                   stages |-> stages]
    ELSE LET y == EachOf(funcs[k], values, <<>>)
         IN  IF y.ok
             THEN CallTuple(funcs, k + 1, y.v,
                            calls \o ElementCalls(k, values, Len(values)),
                            Append(stages, y.v))
             ELSE [ok |-> FALSE, err |-> y.err, v |-> values,
                   calls |-> calls \o ElementCalls(k, values, Len(y.v) + 1),
                   stages |-> stages]

\* Processor.__call__(value) on a value that is no tuple, from step k on.
RECURSIVE CallOne(_, _, _, _, _)
CallOne(funcs, k, x, calls, stages) ==
    IF k > Len(funcs)
    THEN [ok |-> TRUE, err |-> "", v |-> <<x>>, calls |-> calls,
          stages |-> stages]
    ELSE LET y == Plain(funcs[k], x)
             c1 == Append(calls, [k |-> k, whole |-> FALSE, arg |-> <<x>>])
         IN  IF y.ok
             THEN CallOne(funcs, k + 1, y.v, c1, Append(stages, <<y.v>>))
             ELSE [ok |-> FALSE, err |-> y.err, v |-> <<x>>, calls |-> c1,
                   stages |-> stages]

\* Processor.__call__(value): `if isinstance(value, tuple): return
\* self._call_tuple(value)`.
ProcessorApply(funcs, value) ==
    IF value.tuple
    THEN CallTuple(funcs, 1, value.items, <<>>, <<>>)
    ELSE CallOne(funcs, 1, value.items[1], <<>>, <<>>)

\* The set pipeline Feat.rebuild makes of `limits` alone: the checker of
\* several ranges when limits[0] is a list or tuple, of one range else.
LimitsPipeline(limits) ==
    IF limits.several THEN <<"ranges">> ELSE <<"range_checker">>

\* The arguments MyRange is declared with: (stop), (start, stop) and
\* (start, stop, step).
RangeArgs ==
    {<<5>>, <<1, 5>>}
        \cup {<<low, high, step>> :
                 low \in {0, 1}, high \in {4, 5}, step \in {0, 2, 3}}

\* limits=((0, 2), (4, 6, 2)) and the like: several disjoint ranges.
SeveralRanges == {<<<<0, 2>>, <<4, 6, 2>>>>, <<<<1, 2, 0>>, <<4, 5>>>>}

LimitsDecls ==
    {[several |-> FALSE, ranges |-> <<a>>] : a \in RangeArgs}
        \cup {[several |-> TRUE, ranges |-> rs] : rs \in SeveralRanges}

\* The pipelines a Processor is made of.
StepLists ==
    {f \in UNION {[1..n -> PlainSteps \cup TupleAware] : n \in 0..MaxFuncs} :
        \A i, j \in DOMAIN f : i # j => f[i] # f[j]}

\* The declarations looked at: a values mapping, limits, or a pipeline of
\* steps, each with the simplest of the others.
ProcDecls ==
    {[values |-> it, limits |-> [several |-> FALSE, ranges |-> <<<<1, 5>>>>],
      funcs |-> <<>>] : it \in DictItems}
      \cup {[values |-> <<<<1, 11>>>>, limits |-> l, funcs |-> <<>>] :
               l \in LimitsDecls}
      \cup {[values |-> <<<<1, 11>>>>,
              limits |-> [several |-> TRUE, ranges |-> rs], funcs |-> f] :
               rs \in SeveralRanges, f \in StepLists}

\* The values the converters are applied to.
Numbers == 0..7

ProcInputs ==
    {One(x) : x \in {1, 2}}
        \cup {Tup(t) : t \in UNION {[1..n -> {1, 2}] : n \in 0..3}}

NothingApplied ==
    [which |-> "none", input |-> 0, chained |-> FALSE, first |-> 0,
     out |-> Gives(0)]

\* One converter of the declaration is applied to a value.
Convert(which, input, out) ==
    /\ pc = "proc"
    /\ applied' = [which |-> which, input |-> input, chained |-> FALSE,
                   first |-> input, out |-> out]
    /\ UNCHANGED <<modifiers, procs>>
    /\ UNCHANGED <<solveVars, pc, flockVars, loopVars, devVars, result,
                   featVars, dictVars, storeVars>>

\* The converter `which` is applied to the value the last converter gave.
ConvertResult(which, out) ==
    /\ pc = "proc"
    /\ applied' = [which |-> which, input |-> applied.out.v,
                   chained |-> TRUE, first |-> applied.input, out |-> out]
    /\ UNCHANGED <<modifiers, procs>>
    /\ UNCHANGED <<solveVars, pc, flockVars, loopVars, devVars, result,
                   featVars, dictVars, storeVars>>

\* mapper_or_checker(values)(key).
MapperCall(key) ==
    Convert("mapper", key, MapperInner(modifiers.values, key))

\* reverse_mapper_or_checker(values)(value).
ReverseMapperCall(rv) ==
    Convert("reverse_mapper", rv, ReverseMapperInner(modifiers.values, rv))

\* reverse_mapper_or_checker(values)(mapper_or_checker(values)(key)).
ReverseOfMapped ==
    /\ applied.which = "mapper"
    /\ applied.out.ok
    /\ ConvertResult("reverse_mapper",
                     ReverseMapperInner(modifiers.values, applied.out.v))

\* range_checker(MyRange(*limits))(value).
RangeCall(value) ==
    /\ ~modifiers.limits.several
    /\ Convert("range", value,
               RangeCheckerCoercer(MyRange(modifiers.limits.ranges[1]),
                                   value))

\* checker(checker(value)).
RangeOfChecked ==
    /\ applied.which = "range"
    /\ ~applied.chained
    /\ applied.out.ok
    /\ ConvertResult("range",
           RangeCheckerCoercer(MyRange(modifiers.limits.ranges[1]),
                               applied.out.v))

\* A set of one value of an attribute declared with limits: the value goes
\* through the set pipeline.
LimitsSet(value) ==
    Convert("limits", value,
            ProcessorApply(LimitsPipeline(modifiers.limits), One(value)))

\* Processor(*funcs)(value).
ApplyProcessor(value) ==
    Convert("processor", value, ProcessorApply(modifiers.funcs, value))

InitProc ==
    /\ dependencies = EmptyMap
    /\ all_members = {}
    /\ d = EmptyMap
    /\ r = <<>>
    /\ pc = "proc"
    /\ NoFlock
    /\ NoInstances
    /\ NoDicts
    /\ modifiers \in ProcDecls
    /\ procs = <<>>
    /\ applied = NothingApplied

NextProc ==
    \/ \E key \in {1, 2, 3, 4} : MapperCall(key)
    \/ \E rv \in {11, 12, 13} : ReverseMapperCall(rv)
    \/ ReverseOfMapped
    \/ \E value \in Numbers : RangeCall(value)
    \/ RangeOfChecked
    \/ \E value \in Numbers : LimitsSet(value)
    \/ \E value \in ProcInputs : ApplyProcessor(value)

SpecProc == InitProc /\ [][NextProc]_vars


\* C33: for every mapping given as values, the mapper gives the value of
\* every key and raises ValueError for everything else, the reverse mapper
\* raises ValueError for everything that is no value of the mapping, and
\* the reverse mapper applied to what the mapper gave for a key gives the
\* key back.
C33_MapperRoundTrip ==
    /\ applied.which = "mapper" =>
          IF applied.input \in ItemKeys(modifiers.values)
          THEN applied.out.ok /\ applied.out.v \in ItemValues(modifiers.values)
          ELSE ~applied.out.ok /\ applied.out.err = "ValueError"
    /\ (applied.which = "reverse_mapper"
          /\ applied.input \notin ItemValues(modifiers.values)) =>
          (~applied.out.ok /\ applied.out.err = "ValueError")
    /\ (applied.which = "reverse_mapper" /\ applied.chained) =>
          applied.out = Gives(applied.first)


\* C34: for every range (low, high, step), the checker rejects a value
\* outside [low, high] with ValueError and gives low + round((value - low)
\* / step) * step for a value inside (the value itself without step); and
\* applied to a value it gave, it succeeds and gives the same value.
C34_RangeCheckerIdempotent ==
    applied.which = "range" =>
        LET rg == MyRange(modifiers.limits.ranges[1])
        IN  /\ ~applied.chained =>
                  IF rg[1] <= applied.input /\ applied.input <= rg[2]
                  THEN /\ applied.out.ok
                       /\ rg[3] = 0 => applied.out.v = applied.input
                       /\ rg[3] # 0 =>
                             applied.out.v = rg[1]
                                + Round(applied.input - rg[1], rg[3]) * rg[3]
                  ELSE ~applied.out.ok /\ applied.out.err = "ValueError"
            /\ applied.chained => applied.out = Gives(applied.input)


\* The declared ranges the value lies in.
RangesHolding(value) ==
    {k \in DOMAIN modifiers.limits.ranges :
        LET rg == MyRange(modifiers.limits.ranges[k])
        IN  rg[1] <= value /\ value <= rg[2]}

\* C35: a set of one value of an attribute declared with several ranges as
\* limits is accepted when the value lies in one of the ranges, and then
\* sends the value coerced against that range; it is rejected only when
\* the value lies in none of them.
C35_AnyOfSeveralRanges ==
    (applied.which = "limits" /\ modifiers.limits.several) =>
        IF RangesHolding(applied.input) = {}
        THEN ~applied.out.ok
        ELSE /\ applied.out.ok
             /\ \E k \in RangesHolding(applied.input) :
                   applied.out.v =
                       <<RangeCheckerCoercer(
                             MyRange(modifiers.limits.ranges[k]),
                             applied.input).v>>

\* C32: a Processor applied to a tuple takes each step in one of two ways:
\* a step marked accepts_tuples is called once, with the whole tuple; any
\* other step is called with each element of the tuple, one call per
\* element in the order of the tuple, and gives the tuple of the results,
\* as long as the tuple it was given.  Applied to a value that is no tuple
\* it calls each step once, in order, each with what the step before gave.
C32_TupleStepsOneWay ==
    applied.which = "processor" =>
        LET funcs == modifiers.funcs
            out == applied.out
            CallsOf(k) == SelectSeq(out.calls, LAMBDA c : c.k = k)
            In(k) == IF k = 1 THEN applied.input.items ELSE out.stages[k - 1]
        IN  /\ applied.input.tuple =>
                  /\ out.ok => Len(out.stages) = Len(funcs)
                  /\ out.ok => out.v = In(Len(funcs) + 1)
                  /\ \A k \in 1..Len(out.stages) :
                        IF funcs[k] \in TupleAware
                        THEN CallsOf(k) =
                                <<[k |-> k, whole |-> TRUE, arg |-> In(k)]>>
                        ELSE /\ Len(CallsOf(k)) = Len(In(k))
                             /\ Len(out.stages[k]) = Len(In(k))
                             /\ \A i \in 1..Len(In(k)) :
                                   /\ CallsOf(k)[i] =
                                         [k |-> k, whole |-> FALSE,
                                          arg |-> <<In(k)[i]>>]
                                   /\ out.stages[k][i] =
                                         Plain(funcs[k], In(k)[i]).v
            /\ ~applied.input.tuple =>
                  /\ out.ok => Len(out.calls) = Len(funcs)
                  /\ \A n \in 1..Len(out.calls) :
                        out.calls[n] =
                            [k |-> n, whole |-> FALSE, arg |-> In(n)]
                  /\ \A n \in 1..Len(out.stages) :
                        out.stages[n] = <<Plain(funcs[n], In(n)[1]).v>>
                  /\ out.ok => out.v = In(Len(funcs) + 1)

\* C32 witness: a pipeline of a plain step and the step that accepts tuples
\* was applied to a tuple of three: the first step was called three times,
\* the second once with the tuple of the three results, of which its two
\* checkers took the first two.
C32_Witness ==
    /\ applied.which = "processor"
    /\ applied.input.tuple
    /\ Len(applied.input.items) = 3
    /\ modifiers.funcs = <<"f2", "ranges">>
    /\ Len(applied.out.calls) = 4
    /\ applied.out.calls[4].whole
    /\ Len(applied.out.calls[4].arg) = 3
    /\ applied.out.ok
    /\ Len(applied.out.v) = 2



\* ---------------------------------------------------------------------------
\* mfeats.BoolFeat on the message based driver of test_mfeat.py
\* ---------------------------------------------------------------------------

\* An optional value is <<>> (None, or a class attribute that is absent) or
\* <<v>>.
DeviceValues == {0, 1, 2}

Optional == {<<>>} \cup {<<v>> : v \in DeviceValues}

\* class Spam(FakeMBDriver): [DRIVER_TRUE = ..; DRIVER_FALSE = ..;]
\*     eggs = mfeats.BoolFeat('eggs?', 'eggs {:d}' [, true_value, false_value])
BoolDecls ==
    [true_value : Optional, false_value : Optional,
     DRIVER_TRUE : Optional, DRIVER_FALSE : Optional]

\* Python's True and False as keys of a dict: True == 1 and False == 0.
PyBool(b) == IF b THEN 1 ELSE 0

\* Mutant: the two device values change places in the mapping.
BoolBuildFeatKwargs_Swapped(decl) ==
    LET tv == IF decl.true_value = <<>> THEN decl.DRIVER_TRUE
              ELSE decl.true_value
        fv == IF decl.false_value = <<>> THEN decl.DRIVER_FALSE
              ELSE decl.false_value
    IN  IF tv = <<>> \/ fv = <<>>
        THEN [ok |-> FALSE, err |-> "ValueError", values |-> <<>>]
        ELSE [ok |-> TRUE, err |-> "",
              values |-> <<<<PyBool(TRUE), fv[1]>>, <<PyBool(FALSE), tv[1]>>>>]

\* BoolMixin._build_feat_kwargs(owner, name): a value that was not given is
\* taken from the owner's DRIVER_TRUE / DRIVER_FALSE, ValueError when the
\* owner has none; values = {True: true_value, False: false_value}.
BoolBuildFeatKwargs(decl) ==
    LET tv == IF decl.true_value = <<>> THEN decl.DRIVER_TRUE
              ELSE decl.true_value
        fv == IF decl.false_value = <<>> THEN decl.DRIVER_FALSE
              ELSE decl.false_value
    IN  IF tv = <<>> \/ fv = <<>>
        THEN [ok |-> FALSE, err |-> "ValueError", values |-> <<>>]
        ELSE [ok |-> TRUE, err |-> "",
              values |-> <<<<PyBool(TRUE), tv[1]>>, <<PyBool(FALSE), fv[1]>>>>]

\* '{:d}'.format(v) for the device values: the decimal digits of v.
DecimalDigits(v) ==
    CASE v = 0 -> "0"
      [] v = 1 -> "1"
      [] v = 2 -> "2"

\* MFeatMixin.local_set: set_cmd.format(value) with set_cmd = 'eggs {:d}'; a
\* message is the sequence of its words.
SetCmdFormat(v) == <<"eggs", DecimalDigits(v)>>

GetCmd == <<"eggs?">>

\* FakeMBDriver.query(msg) on internal['eggs'] = eggs: the answer, and the
\* value of internal['eggs'] afterwards.
FakeQuery(msg, eggs) ==
    CASE msg = GetCmd           -> [out |-> Gives(eggs), eggs |-> eggs]
      [] msg = <<"eggs", "0">>  -> [out |-> Gives(0), eggs |-> 0]
      [] msg = <<"eggs", "1">>  -> [out |-> Gives(0), eggs |-> 1]
      [] OTHER                  -> [out |-> Raise("ValueError", 0),
                                    eggs |-> eggs]

BoolIdle ==
    [op |-> "none", value |-> 0, skipped |-> FALSE, sent |-> <<>>,
     raw |-> <<>>, out |-> Gives(0), prevSet |-> <<>>]

\* The class body ends: MFeatMixin.__set_name__ builds the keyword arguments
\* and Feat.__set_name__ rebuilds the pipelines from values.
BoolSetName ==
    /\ pc = "bool"
    /\ procs = <<>>
    /\ procs' = BoolBuildFeatKwargs(modifiers)
    /\ UNCHANGED <<modifiers, applied, device, cache>>
    /\ UNCHANGED <<solveVars, pc, flockVars, loopVars, devVars, result,
                   feat, lock, th, done, dictVars, storeVars>>

BoolDefined == pc = "bool" /\ procs # <<>> /\ procs.ok

\* obj.eggs = b. A value equal to the cached one is not sent; any other goes
\* through the set pipeline (the mapper of values) to local_set, and is
\* cached when the device took it.
BoolSet(b) ==
    /\ BoolDefined
    /\ LET value == PyBool(b)
           m     == MapperInner(procs.values, value)
           msg   == SetCmdFormat(m.v)
           q     == FakeQuery(msg, device.obj)
       IN  IF cache.obj = <<value>>
           THEN /\ applied' = [op |-> "set", value |-> value,
                               skipped |-> TRUE, sent |-> <<>>,
                               raw |-> <<>>, out |-> Gives(0),
                               prevSet |-> <<value>>]
                /\ UNCHANGED <<device, cache>>
           ELSE /\ applied' = [op |-> "set", value |-> value,
                               skipped |-> FALSE, sent |-> <<msg>>,
                               raw |-> <<>>, out |-> q.out,
                               prevSet |-> IF q.out.ok THEN <<value>>
                                           ELSE <<>>]
                /\ device' = [device EXCEPT !.obj = q.eggs]
                /\ cache' = IF q.out.ok
                            THEN [cache EXCEPT !.obj = <<value>>]
                            ELSE cache
    /\ UNCHANGED <<modifiers, procs>>
    /\ UNCHANGED <<solveVars, pc, flockVars, loopVars, devVars, result,
                   feat, lock, th, done, dictVars, storeVars>>

\* obj.eggs: local_get sends get_cmd, the answer goes through the get
\* pipeline (the reverse mapper of values) and is cached.
BoolGet ==
    /\ BoolDefined
    /\ LET q   == FakeQuery(GetCmd, device.obj)
           out == ReverseMapperInner(procs.values, q.out.v)
       IN  /\ applied' = [op |-> "get", value |-> 0, skipped |-> FALSE,
                          sent |-> <<GetCmd>>, raw |-> <<q.out.v>>,
                          out |-> out,
                          prevSet |-> IF applied.op = "set"
                                      THEN applied.prevSet ELSE <<>>]
           /\ cache' = IF out.ok THEN [cache EXCEPT !.obj = <<out.v>>]
                       ELSE cache
    /\ UNCHANGED <<modifiers, procs, device>>
    /\ UNCHANGED <<solveVars, pc, flockVars, loopVars, devVars, result,
                   feat, lock, th, done, dictVars, storeVars>>

InitBool ==
    /\ dependencies = EmptyMap
    /\ all_members = {}
    /\ d = EmptyMap
    /\ r = <<>>
    /\ pc = "bool"
    /\ NoFlock
    /\ NoDicts
    /\ feat = <<>>
    /\ lock = <<>>
    /\ th = <<>>
    /\ done = <<>>
    /\ device = [obj |-> 0]
    /\ cache = [obj |-> <<>>]
    /\ modifiers \in BoolDecls
    /\ procs = <<>>
    /\ applied = BoolIdle

NextBool ==
    \/ BoolSetName
    \/ \E b \in BOOLEAN : BoolSet(b)
    \/ BoolGet

SpecBool == InitBool /\ [][NextBool]_vars

\* The device value the declaration gives for a boolean: the one given with
\* the attribute, else the owner's DRIVER_TRUE / DRIVER_FALSE.
DeclaredValue(b) ==
    IF b = 1
    THEN (IF modifiers.true_value # <<>> THEN modifiers.true_value
          ELSE modifiers.DRIVER_TRUE)[1]
    ELSE (IF modifiers.false_value # <<>> THEN modifiers.false_value
          ELSE modifiers.DRIVER_FALSE)[1]

Root == "Base"

ClassIds == {"c1", "c2", "c3"}

AllClasses == ClassIds \cup {Root}

QualNames == {"P", "Q"}

MaxBody == 2

\* A name is the sequence of its parts between underscores: g_async is
\* <<"g", "async">>.
AsyncName(name) == Append(name, "async")

\* name.endswith('_async')
EndsWithAsync(name) == Len(name) > 1 /\ name[Len(name)] = "async"

\* What a class body may hold: an attribute, an operation, and an operation
\* that is itself called ..._async.
BodyMembers ==
    {[name |-> <<"f">>, kind |-> "feat"],
     [name |-> <<"g">>, kind |-> "action"],
     [name |-> <<"g", "async">>, kind |-> "action"]}

Bodies ==
    {b \in UNION {[1..n -> BodyMembers] : n \in 0..MaxBody} :
        \A i, j \in DOMAIN b : i # j => b[i].name # b[j].name}

Undefined ==
    [defined |-> FALSE, qualname |-> "", bases |-> <<>>, attrs |-> {},
     members |-> {}]

NoRegistry == [made |-> FALSE, marker |-> "", entries |-> {}]

\* _lantz_feats = MyDict(), _lantz_actions = MyDict(): empty, and without
\* the attribute __lantz_driver_cls__.
RootRegistry == [made |-> TRUE, marker |-> "", entries |-> {}]

RegistryKinds == {"feats", "actions"}

\* The method resolution order of a class. A class has one base, or two
\* bases that both derive from Base directly.
RECURSIVE MRO(_, _)
MRO(cl, c) ==
    IF c = Root THEN <<Root>>
    ELSE IF Len(cl[c].bases) = 1 THEN <<c>> \o MRO(cl, cl[c].bases[1])
    ELSE <<c, cl[c].bases[1], cl[c].bases[2], Root>>

InMRO(cl, c) == {MRO(cl, c)[i] : i \in DOMAIN MRO(cl, c)}

\* owner._lantz_feats / owner._lantz_actions: the registry object of the
\* first class of the resolution order that has one of its own, named by the
\* class that created it.
Lookup(cl, regs, k, c) ==
    LET m == MRO(cl, c)
        i == CHOOSE i \in DOMAIN m :
                /\ regs[k][m[i]].made
                /\ \A j \in 1..(i - 1) : ~regs[k][m[j]].made
    IN  m[i]

\* The registry a class sees.
Seen(cl, regs, k, c) == regs[k][Lookup(cl, regs, k, c)].entries

SeenNames(cl, regs, k, c) == {e.name : e \in Seen(cl, regs, k, c)}

\* hasattr(owner, name)
HasAttr(cl, c, name) == \E x \in InMRO(cl, c) : name \in cl[x].attrs

\* registry[name] = entry
Put(entries, e) == {x \in entries : x.name # e.name} \cup {e}

\* Base.attach_async(action): the operation that runs the call of the
\* action on a background worker and gives its future, attached to the
\* class under the name of the action with _async.
AttachAsync(owner, name) ==
    [name |-> AsyncName(name), owner |-> owner, kind |-> "async",
     of |-> name]

\* The registry part of Feat.__set_name__ and of Action.__set_name__: the
\* registry the owner sees is copied for the owner when its
\* __lantz_driver_cls__ differs from the owner's __qualname__, and the entry
\* is put into the registry the owner then sees.
Registered(st, owner, k, e) ==
    LET from == Lookup(st.cl, st.regs, k, owner)
        copy == st.regs[k][from].marker # st.cl[owner].qualname
        held == IF copy
                THEN [made |-> TRUE, marker |-> st.cl[owner].qualname,
                      entries |-> st.regs[k][from].entries]
                ELSE st.regs[k][from]
        at   == IF copy THEN owner ELSE from
    IN  [st EXCEPT !.regs[k][at] =
            [held EXCEPT !.entries = Put(held.entries, e)]]

\* Feat.__set_name__(owner, name)
FeatSetName(st, owner, name) ==
    Registered(st, owner, "feats",
               [name |-> name, owner |-> owner, kind |-> "feat",
                of |-> <<>>])

\* Mutant: the counterpart is generated whatever the owner already has.
ActionSetName_AlwaysAsync(st, owner, name) ==
    LET s1 == Registered(st, owner, "actions",
                         [name |-> name, owner |-> owner, kind |-> "action",
                          of |-> <<>>])
    IN  IF ~EndsWithAsync(name)
        THEN LET s2 == Registered(s1, owner, "actions",
                                  AttachAsync(owner, name))
             IN  [s2 EXCEPT !.cl[owner].attrs = @ \cup {AsyncName(name)}]
        ELSE s1

\* Action.__set_name__(owner, name)
ActionSetName(st, owner, name) ==
    LET s1 == Registered(st, owner, "actions",
                         [name |-> name, owner |-> owner, kind |-> "action",
                          of |-> <<>>])
    IN  IF ~EndsWithAsync(name) /\ ~HasAttr(s1.cl, owner, AsyncName(name))
        THEN LET s2 == Registered(s1, owner, "actions",
                                  AttachAsync(owner, name))
             IN  [s2 EXCEPT !.cl[owner].attrs = @ \cup {AsyncName(name)}]
        ELSE s1

\* type.__new__ calls __set_name__ of the members of the body, in the order
\* of the body.
RECURSIVE SetNames(_, _, _, _)
SetNames(st, owner, body, i) ==
    IF i > Len(body) THEN st
    ELSE LET m  == body[i]
             s1 == IF m.kind = "feat"
                   THEN FeatSetName(st, owner, m.name)
                   ELSE ActionSetName(st, owner, m.name)
         IN  SetNames(s1, owner, body, i + 1)

\* The classes defined so far.
Defined(cl) == {c \in AllClasses : cl[c].defined}

\* The bases a new class may have: one class, or two different classes that
\* both derive from Base directly.
BasesFor(cl) ==
    {<<b>> : b \in Defined(cl)}
    \cup {bb \in (Defined(cl) \ {Root}) \X (Defined(cl) \ {Root}) :
             /\ bb[1] # bb[2]
             /\ cl[bb[1]].bases = <<Root>>
             /\ cl[bb[2]].bases = <<Root>>}

\* Classes are defined one after the other.
NextClass(cl) ==
    IF ~cl["c1"].defined THEN "c1"
    ELSE IF ~cl["c2"].defined THEN "c2" ELSE "c3"

NotRun == [owner |-> "", name |-> <<>>, layers |-> <<>>]

\* class <qualname>(<bases>): <body>
DefineClass(qualname, bases, body) ==
    /\ pc = "classes"
    /\ Defined(dconf) # AllClasses
    /\ LET n   == NextClass(dconf)
           cl0 == [dconf EXCEPT ![n] =
                      [defined |-> TRUE, qualname |-> qualname,
                       bases |-> bases,
                       attrs |-> {body[i].name : i \in DOMAIN body},
                       members |-> {body[i] : i \in DOMAIN body}]]
           st  == SetNames([cl |-> cl0, regs |-> subs], n, body, 1)
       IN  /\ dconf' = st.cl
           /\ subs' = st.regs
           /\ slast' = [op |-> "class", cls |-> n, name |-> <<>>,
                        ran |-> NotRun, on |-> "", returns |-> ""]
    /\ UNCHANGED <<solveVars, pc, flockVars, loopVars, devVars, result,
                   featVars, pipeVars, dictVars>>

\* instance.<name>_async(...) through a counterpart that the registry of
\* some class holds: the call of the action it was generated for, with the
\* layers of Action, is handed to a background worker, and the caller gets
\* the future.
CallAsync(e) ==
    /\ pc = "classes"
    /\ \E c \in Defined(dconf) : e \in Seen(dconf, subs, "actions", c)
    /\ e.kind = "async"
    /\ slast' = [op |-> "call_async", cls |-> e.owner, name |-> e.name,
                 ran |-> [owner |-> e.owner, name |-> e.of,
                          layers |-> ActionMRO],
                 on |-> "worker", returns |-> "future"]
    /\ UNCHANGED <<dconf, subs>>
    /\ UNCHANGED <<solveVars, pc, flockVars, loopVars, devVars, result,
                   featVars, pipeVars, dictVars>>

InitClasses ==
    /\ dependencies = EmptyMap
    /\ all_members = {}
    /\ d = EmptyMap
    /\ r = <<>>
    /\ pc = "classes"
    /\ NoFlock
    /\ NoInstances
    /\ NoPipes
    /\ keys = <<>>
    /\ kdev = <<>>
    /\ kcache = <<>>
    /\ klast = <<>>
    /\ dconf = [c \in AllClasses |->
                  IF c = Root
                  THEN [Undefined EXCEPT !.defined = TRUE]
                  ELSE Undefined]
    /\ subs = [k \in RegistryKinds |->
                 [c \in AllClasses |->
                    IF c = Root THEN RootRegistry ELSE NoRegistry]]
    /\ slast = [op |-> "none", cls |-> Root, name |-> <<>>, ran |-> NotRun,
                on |-> "", returns |-> ""]

NextClasses ==
    \/ \E qualname \in QualNames, bases \in BasesFor(dconf),
          body \in Bodies :
          DefineClass(qualname, bases, body)
    \/ \E c \in ClassIds : CallAsync(AttachAsync(c, <<"g">>))

SpecClasses == InitClasses /\ [][NextClasses]_vars


\* The registry kind a member of a class body goes to.
KindOf(m) == IF m.kind = "feat" THEN "feats" ELSE "actions"

\* C36: after every class definition, the registry every class sees holds an
\* entry for every attribute (operation) that the class or one of its
\* ancestors declares, and the definition of a class leaves the registries
\* seen by all classes defined before it (its ancestors, its siblings and
\* every other class) as they were.
C36_RegistriesPerClass ==
    [][/\ \A c \in Defined(dconf') \ {Root} : \A k \in RegistryKinds :
             \A x \in InMRO(dconf', c) : \A m \in dconf'[x].members :
                KindOf(m) = k => m.name \in SeenNames(dconf', subs', k, c)
       /\ \A c \in Defined(dconf) : \A k \in RegistryKinds :
             Seen(dconf', subs', k, c) = Seen(dconf, subs, k, c)]_vars



\* The class has the attribute `name` when the binding of its members
\* starts: the name is in its body or an ancestor has it.
AlreadyHas(c, name) ==
    \/ name \in {m.name : m \in dconf[c].members}
    \/ \E x \in InMRO(dconf, c) \ {c} : name \in dconf[x].attrs

\* C31: when a class has just been defined, for each operation n of its body
\* the registry of operations the class sees holds, under n_async, the
\* counterpart generated for this operation of this class, unless n ends
\* with _async or the class already had an attribute n_async, and in these
\* two cases no counterpart was generated for it; a call of a counterpart
\* hands the call of the operation it was generated for, with all the layers
\* of the operation wrapper, to a background worker and returns a future.
C31_AsyncCounterpart ==
    /\ slast.op = "class" =>
          \A m \in dconf[slast.cls].members : m.kind = "action" =>
             LET generated == [name |-> Append(m.name, "async"),
                               owner |-> slast.cls, kind |-> "async",
                               of |-> m.name]
                 registry  == Seen(dconf, subs, "actions", slast.cls)
             IN  IF \/ m.name[Len(m.name)] = "async"
                    \/ AlreadyHas(slast.cls, Append(m.name, "async"))
                 THEN /\ generated \notin registry
                      /\ \A c \in Defined(dconf) :
                            generated \notin Seen(dconf, subs, "actions", c)
                 ELSE /\ generated \in registry
                      /\ \A e \in registry :
                            e.name = generated.name => e = generated
    /\ slast.op = "call_async" =>
          /\ slast.on = "worker"
          /\ slast.returns = "future"
          /\ slast.ran.layers = ActionMRO
          /\ slast.name = Append(slast.ran.name, "async")
          /\ [name |-> slast.ran.name, kind |-> "action"]
                \in dconf[slast.ran.owner].members

\* The class c2 derives from c1, which has no g_async; c2 declares the
\* operation g and its registry holds the counterpart generated for it, and
\* this counterpart has been called.
C31_Witness ==
    /\ slast.op = "call_async"
    /\ slast.ran = [owner |-> "c2", name |-> <<"g">>, layers |-> ActionMRO]
    /\ dconf["c2"].bases = <<"c1">>
    /\ ~AlreadyHas("c2", <<"g", "async">>)
    /\ [name |-> <<"g", "async">>, owner |-> "c2", kind |-> "async",
        of |-> <<"g">>] \in Seen(dconf, subs, "actions", "c2")

=============================================================================
